---- MODULE Spec2Model ----
(***************************************************************************)
(* A model of komments: the history store (komments.json) written by       *)
(* saveSuggestions / saveCommentRemovalOperation and read by               *)
(* importSuggestions, and the snippet extractor extractCodeSnippets.       *)
(*                                                                         *)
(* Representation of text.  A string that the code splits on '\n' is       *)
(* represented by the sequence of its lines (String.split('\n') and        *)
(* Array.join('\n') are inverse bijections between strings and non-empty   *)
(* sequences of newline-free strings; the empty string is the one-element  *)
(* sequence holding the empty line).  A line is the sequence of the        *)
(* lexical pieces it is the concatenation of (see Pieces).                 *)
(***************************************************************************)
EXTENDS Integers, Sequences, FiniteSets, TLC

VARIABLES
    kommentsJson,   \* the file komments.json in process.cwd()
    before,         \* komments.json as it was when the last run started
    lastRun,        \* the last run against komments.json, with its inputs
    imported,       \* the `suggestions` list importSuggestions handed to its apply branch
    extension,      \* extractCodeSnippets: path.extname(filePath).toLowerCase()
    lines,          \* extractCodeSnippets: fileContent.split('\n')
    i,              \* extractCodeSnippets: loop index (0-based)
    inSnippet,      \* extractCodeSnippets: local
    snippetStart,   \* extractCodeSnippets: local
    bracketCount,   \* extractCodeSnippets: local
    currentSnippet, \* extractCodeSnippets: local (as its sequence of lines)
    snippets,       \* extractCodeSnippets: local, the array being built
    result,         \* extractCodeSnippets: the returned array
    pc,             \* extractCodeSnippets: "idle", "scan" (inside the for loop), "done" (returned)
    filePaths,      \* analyzeCode: the argument
    fileIndex,      \* analyzeCode: the loop index `i` (0-based)
    codeSnippets,   \* analyzeCode: the units of the file being analysed
    snippetIndex,   \* analyzeCode: position of the for..of loop in codeSnippets (1-based)
    allSuggestions, \* analyzeCode: local, the array being built and returned
    requests,       \* the calls of model.generateContent so far, with their outcomes
    outstanding,    \* the number of calls of model.generateContent that have not settled
    apc,            \* analyzeCode: "idle", "file", "unit", "await", "done" (returned)
    disk,           \* the source files the apply pass works on
    toApply,        \* the `suggestions` argument of the apply pass
    interactiveMode,\* TRUE for applySuggestions, FALSE for the bulk loop of importSuggestions
    applyIndex,     \* the apply loop: number of suggestions already left behind
    applyLog,       \* what the apply loop did with each suggestion it reached
    appc,           \* the apply loop: "idle", "loop", "done", "aborted" (an error escaped)
    removeFilePaths, \* removeComments: filePaths (after scanCodebase() when none were given)
    removeInteractive, \* removeComments: the argument interactive
    confirmAnswer,  \* removeComments: what the confirmation prompt returned ("none" before it)
    tree,           \* the source files removeComments works on, by path, as characters
    treeBefore,     \* tree when removeComments was called
    removeIndex,    \* removeComments: files of the for..of loop already processed
    details,        \* removeComments: local
    totalCommentsRemoved, \* removeComments: local
    returned,       \* removeComments: the record it returned (<<>> before)
    rmpc,           \* remove-comments: "idle", "validate", "start", "confirm", "loop", "done"
    apiKey,         \* process.env.GOOGLE_GEMINI_API_KEY ("" when unset)
    dotEnv,         \* the key written to .env.local and .env ("" when none was)
    gitStatus,      \* what git answers to scanGitChanges
    options,        \* main: the command line options
    modifiedFiles,  \* main: local
    exitCode,       \* the status process.exit was called with ("none" before)
    mpc,            \* main: "idle", "validate", "scan", "analyze", "apply", "returned", "exited"
    stripCase,      \* removeCommentsFromContent: the arguments of the first call
    stripRuns       \* removeCommentsFromContent: what the calls so far returned

histVars == <<kommentsJson, before, lastRun, imported>>
extVars == <<extension, lines, i, inSnippet, snippetStart, bracketCount, currentSnippet,
             snippets, result, pc>>
anaVars == <<filePaths, fileIndex, codeSnippets, snippetIndex, allSuggestions, requests,
             outstanding, apc>>
appVars == <<disk, toApply, interactiveMode, applyIndex, applyLog, appc>>
stripVars == <<stripCase, stripRuns>>
mainVars == <<apiKey, dotEnv, gitStatus, options, modifiedFiles, exitCode, mpc>>
remVars == <<removeFilePaths, removeInteractive, confirmAnswer, tree, treeBefore, removeIndex,
             details, totalCommentsRemoved, returned, rmpc>>
vars == <<kommentsJson, before, lastRun, imported,
          extension, lines, i, inSnippet, snippetStart, bracketCount, currentSnippet,
          snippets, result, pc,
          filePaths, fileIndex, codeSnippets, snippetIndex, allSuggestions, requests,
          outstanding, apc,
          disk, toApply, interactiveMode, applyIndex, applyLog, appc,
          stripCase, stripRuns,
          apiKey, dotEnv, gitStatus, options, modifiedFiles, exitCode, mpc,
          removeFilePaths, removeInteractive, confirmAnswer, tree, treeBefore, removeIndex,
          details, totalCommentsRemoved, returned, rmpc>>

(***************************************************************************)
(* Bounds                                                                  *)
(***************************************************************************)
\* the wall clock (Date.getTime()) reads a value in 1..MaxClock
MaxClock == 2
\* at most MaxRuns writing runs against komments.json are explored
MaxRuns == 3
\* importSuggestions is explored on lists of at most MaxImported elements
MaxImported == 3
\* files given to extractCodeSnippets have at most MaxLines lines
MaxLines == 4
\* analyzeCode is given at most MaxFiles file paths
MaxFiles == 2
\* an apply pass is given at most MaxSuggestions suggestions
MaxSuggestions == 2
\* stylesheet contents given to removeCommentsFromContent have at most MaxChars
\* characters, script contents at most MaxScriptChars
MaxChars == 8
MaxScriptChars == 6

Clock == 1..MaxClock

\* analyzeCode has not been called
AnaIdle ==
    /\ filePaths = <<>>
    /\ fileIndex = 0
    /\ codeSnippets = <<>>
    /\ snippetIndex = 0
    /\ allSuggestions = <<>>
    /\ requests = <<>>
    /\ outstanding = 0
    /\ apc = "idle"

\* no apply pass has been started
AppIdle ==
    /\ disk = <<>>
    /\ toApply = <<>>
    /\ interactiveMode = FALSE
    /\ applyIndex = 0
    /\ applyLog = <<>>
    /\ appc = "idle"

\* removeCommentsFromContent has not been called
StripIdle ==
    /\ stripCase = <<>>
    /\ stripRuns = <<>>

\* main has not been called
MainIdle ==
    /\ apiKey = ""
    /\ dotEnv = ""
    /\ gitStatus = <<>>
    /\ options = <<>>
    /\ modifiedFiles = <<>>
    /\ exitCode = "none"
    /\ mpc = "idle"

\* removeComments has not been called
RemIdle ==
    /\ removeFilePaths = <<>>
    /\ removeInteractive = FALSE
    /\ confirmAnswer = "none"
    /\ tree = <<>>
    /\ treeBefore = <<>>
    /\ removeIndex = 0
    /\ details = <<>>
    /\ totalCommentsRemoved = 0
    /\ returned = <<>>
    /\ rmpc = "idle"

(***************************************************************************)
(* Paths and the working directory                                         *)
(***************************************************************************)

\* String.prototype.toLowerCase on the extensions explored
ToLowerCase(ext) ==
    CASE ext = ".GO" -> ".go"
      [] ext = ".PY" -> ".py"
      [] ext = ".JS" -> ".js"
      [] OTHER -> ext

\* path.extname on the paths explored
ExtName(path) ==
    CASE path = "a.py" -> ".py"
      [] path = "b.js" -> ".js"
      [] path = "c.GO" -> ".GO"
      [] path = "gone.js" -> ".js"
      [] path = "a.js" -> ".js"
      [] path = "p.css" -> ".css"
      [] path = "ro.py" -> ".py"
      [] path = "h.html" -> ".html"
      [] path = "b.py" -> ".py"
      [] path = "locked.js" -> ".js"
      [] path = "notes.md" -> ".md"
      [] path = "blank.py" -> ".py"
      [] path = "c.css" -> ".css"
      [] path = "komments.json" -> ".json"
      [] path = ".env.local" -> ".local"
      [] OTHER -> ""

\* every name a working directory of the model may hold, in the order
\* fs.readdirSync lists them
ReaddirOrder ==
    << ".env", ".env.local", ".gitignore", "README", "a.js", "a.py", "b.js", "b.py", "blank.py", "c.GO",
       "c.css", "gone.js", "h.html", "komments.json", "locked.js", "notes.md", "p.css",
       "ro.py" >>

\* fs.readdirSync(cwd): the source files d that exist, komments.json when
\* it exists, .env, .env.local and .gitignore when setupApiKey wrote them
readdirSync(d, file, env) ==
    SelectSeq(ReaddirOrder,
              LAMBDA name : \/ name \in DOMAIN d /\ d[name].state # "missing"
                            \/ name = "komments.json" /\ file.kind # "absent"
                            \/ name \in { ".env", ".env.local", ".gitignore" } /\ env # "")

\* process.cwd()
Cwd == "/work"

\* path.join(dir, name)
PathJoin(dir, name) == dir \o "/" \o name

\* path.isAbsolute(p): the absolute paths explored are the full paths of the
\* entries of the working directory
isAbsolute(p) == \E k \in 1..Len(ReaddirOrder) : p = PathJoin(Cwd, ReaddirOrder[k])

\* `path.isAbsolute(filePath) ? filePath : path.join(process.cwd(), filePath)`
resolvedPath(filePath) == IF isAbsolute(filePath) THEN filePath ELSE PathJoin(Cwd, filePath)

\* the name of the entry of the working directory a resolved path leads to
BaseName(p) ==
    ReaddirOrder[CHOOSE k \in 1..Len(ReaddirOrder) : p = PathJoin(Cwd, ReaddirOrder[k])]

\* languageMap[extension.toLowerCase()] || null of suggestions.ts ("" for null)
languageMap(ext) ==
    CASE ext = ".js" -> "JavaScript"
      [] ext = ".jsx" -> "JavaScript (React)"
      [] ext = ".ts" -> "TypeScript"
      [] ext = ".tsx" -> "TypeScript (React)"
      [] ext = ".py" -> "Python"
      [] ext = ".java" -> "Java"
      [] ext = ".c" -> "C"
      [] ext = ".cpp" -> "C++"
      [] ext = ".cs" -> "C#"
      [] ext = ".go" -> "Go"
      [] ext = ".rb" -> "Ruby"
      [] ext = ".php" -> "PHP"
      [] ext = ".swift" -> "Swift"
      [] ext = ".rs" -> "Rust"
      [] ext = ".html" -> "HTML"
      [] ext = ".css" -> "CSS"
      [] ext = ".scss" -> "SCSS"
      [] OTHER -> ""

\* the Set `languages` of collectCodebaseInfo after the entries `names`, as
\* Array.from lists it: in the order of first insertion
RECURSIVE LanguagesOf(_, _)
LanguagesOf(names, found) ==
    IF names = <<>> THEN found
    ELSE LET language == languageMap(ToLowerCase(ExtName(Head(names))))
         IN  LanguagesOf(Tail(names),
                         IF language # "" /\ \A k \in 1..Len(found) : found[k] # language
                         THEN Append(found, language) ELSE found)

\* collectCodebaseInfo() in a working directory whose entries are `names`:
\* only the files whose name has an extension count
collectCodebaseInfo(names) ==
    LET ext(k) == ToLowerCase(ExtName(names[k]))
        counted == { k \in 1..Len(names) : ext(k) # "" }
    IN  [fileTypes |-> [e \in { ext(k) : k \in counted } |->
                           Cardinality({ k \in counted : ext(k) = e })],
         totalFiles |-> Cardinality(counted),
         languages |-> LanguagesOf(names, <<>>)]

(***************************************************************************)
(* History store                                                           *)
(***************************************************************************)

\* CommentSuggestion values
Sugg(f, l, c) == [file |-> f, line |-> l, codeSnippet |-> "function f()...", suggestedComment |-> c]
sA == Sugg("a.js", 1, << <<"first">> >>)
sB == Sugg("a.js", 3, << <<"second">> >>)
sC == Sugg("b.py", 2, << <<"third">> >>)

\* the batches a run of saveSuggestions is given
Batches == { <<>>, <<sA>>, <<sB, sC>> }

\* Date.prototype.toISOString of the instant t (epoch milliseconds)
ToISOString(t) == [iso |-> t]

\* komments.json: absent, not parseable as JSON, a JSON value that is not an
\* array, or a JSON array (items).  JSON.stringify followed by JSON.parse
\* returns the same arrays of plain objects, so the file is held parsed.
Absent == [kind |-> "absent", items |-> <<>>]
Unparseable == [kind |-> "unparseable", items |-> <<>>]
NonArray == [kind |-> "nonarray", items |-> <<>>]
ArrayDoc(items) == [kind |-> "array", items |-> items]

\* `id: 'gen-' + now.getTime()`
GenId(now) == "gen-" \o ToString(now)

\* the generation object literal of saveSuggestions
NewGeneration(now, suggestions, codebaseInfo) ==
    [id |-> GenId(now), timestamp |-> ToISOString(now),
     suggestions |-> suggestions, codebaseInfo |-> codebaseInfo]

\* the 'legacy' generation literal of saveSuggestions; it is built only when
\* the parsed content is NOT an array, so its suggestions
\* (Array.isArray(JSON.parse(fileContent)) ? ... : []) are always []
LegacyGeneration(now) ==
    [id |-> "legacy", timestamp |-> ToISOString(now), suggestions |-> <<>>]

\* `generations` of saveSuggestions after the read block
LoadForSave(file, tLegacy) ==
    CASE file.kind = "absent" -> <<>>
      [] file.kind = "unparseable" -> <<>>
      [] file.kind = "nonarray" -> << LegacyGeneration(tLegacy) >>
      [] file.kind = "array" -> file.items

\* `generations` of saveCommentRemovalOperation after the read block
LoadForRemoval(file) ==
    IF file.kind = "array" THEN file.items ELSE <<>>

\* `latestGeneration.commentRemoval = operation` on an object e
SetCommentRemoval(e, operation) == [commentRemoval |-> operation] @@ e

\* the generation literal of saveCommentRemovalOperation
RemovalGeneration(tId, tStamp, operation) ==
    [id |-> GenId(tId), timestamp |-> ToISOString(tStamp),
     suggestions |-> <<>>, commentRemoval |-> operation]

\* number of writing runs so far (each run appends at most one element)
Runs == lastRun.n

saveSuggestions ==
    /\ Runs + imported.count < MaxRuns
    /\ \E suggestions \in Batches, tLegacy \in Clock, now \in Clock :
         /\ (kommentsJson.kind # "nonarray" => tLegacy = now)
         /\ LET generations == LoadForSave(kommentsJson, tLegacy)
                codebaseInfo == collectCodebaseInfo(readdirSync(disk, kommentsJson, dotEnv))
            IN  kommentsJson' = ArrayDoc(Append(generations,
                                                NewGeneration(now, suggestions, codebaseInfo)))
         /\ before' = kommentsJson
         /\ lastRun' = [op |-> "saveSuggestions", n |-> Runs + 1, now |-> now,
                        suggestions |-> suggestions, operation |-> <<>>]
    /\ UNCHANGED imported

\* the body of saveCommentRemovalOperation(operation); it is not exported
\* and its one caller is removeComments, after its loop (see RemoveSave)
saveCommentRemovalOperation(operation) ==
    \E tId \in Clock, tStamp \in Clock :
        LET generations == LoadForRemoval(kommentsJson)
            n == Len(generations)
        IN  /\ IF n > 0
               THEN /\ tId = tStamp
                    /\ kommentsJson' = ArrayDoc([generations EXCEPT
                                           ![n] = SetCommentRemoval(generations[n], operation)])
               ELSE kommentsJson' = ArrayDoc(<< RemovalGeneration(tId, tStamp, operation) >>)
            /\ lastRun' = [op |-> "saveCommentRemovalOperation", n |-> Runs + 1, now |-> tId,
                           suggestions |-> <<>>, operation |-> operation]

\* `data[0].suggestions` is truthy
HasSuggestions(e) == "suggestions" \in DOMAIN e

\* the `suggestions` local of importSuggestions for a parsed array `data`
SelectSuggestions(data) ==
    IF Len(data) > 0 /\ HasSuggestions(data[1])
    THEN data[Len(data)].suggestions
    ELSE data

\* the values of the argument filePath: none, or a file outside the working
\* directory that holds a bare array of suggestions
ImportArguments == { "", "/tmp/other.json" }
OtherFile == ArrayDoc(<<sC>>)

\* importSuggestions up to its apply branch: the file is read and the list
\* selected; the loops that follow are BulkApply.. and AnswerApply..
importSuggestions ==
    /\ appc # "loop"
    /\ Runs + imported.count < MaxRuns
    /\ \E filePath \in ImportArguments, interactive \in BOOLEAN :
         LET file == IF filePath = "" THEN kommentsJson ELSE OtherFile
             status == CASE file.kind = "absent" -> "missing"
                         [] file.kind = "unparseable" -> "error"
                         [] file.kind = "nonarray" -> "invalid"
                         [] file.kind = "array" -> "applied"
             suggestions == IF file.kind = "array" THEN SelectSuggestions(file.items) ELSE <<>>
         IN  /\ Len(suggestions) <= MaxImported
             /\ imported' = [file |-> filePath, interactive |-> interactive, n |-> Runs,
                             count |-> imported.count + 1, status |-> status,
                             list |-> suggestions]
             /\ IF status = "applied"
                THEN /\ toApply' = suggestions
                     /\ interactiveMode' = interactive
                     /\ applyIndex' = 0
                     /\ applyLog' = <<>>
                     /\ appc' = "loop"
                ELSE UNCHANGED <<toApply, interactiveMode, applyIndex, applyLog, appc>>
    /\ UNCHANGED <<kommentsJson, before, lastRun, disk>>

\* komments.json before the first run: absent, corrupt, a non-array value, an
\* empty array, or a legacy flat array of suggestions
InitialFiles ==
    { Absent, Unparseable, NonArray, ArrayDoc(<<>>),
      ArrayDoc(<<sA>>), ArrayDoc(<<sA, sB, sC>>) }

HistInit ==
    /\ kommentsJson \in InitialFiles
    /\ before = kommentsJson
    /\ lastRun = [op |-> "none", n |-> 0, now |-> 0, suggestions |-> <<>>, operation |-> <<>>]
    /\ imported = [file |-> "", interactive |-> FALSE, n |-> 0, count |-> 0, status |-> "none",
                   list |-> <<>>]

ExtIdle ==
    /\ extension = ""
    /\ lines = <<>>
    /\ i = 0
    /\ inSnippet = FALSE
    /\ snippetStart = 0
    /\ bracketCount = 0
    /\ currentSnippet = << <<>> >>
    /\ snippets = <<>>
    /\ result = <<>>
    /\ pc = "idle"

(***************************************************************************)
(* Snippet extractor: extractCodeSnippets                                  *)
(***************************************************************************)

\* The lexical pieces lines are made of.  A line is a sequence of pieces and
\* stands for their concatenation: <<"function f()", "{", "}">> is the line
\* `function f(){}`.  "x" is a word character.
Space == { " ", "\t" }
Pieces == { "function f()", "async function h(p, ...r)", "class A", "def foo():",
            "def add(a, b):", "func g()", "{", "}", " ", "\t", "x" }

\* the lines files are built from
EmptyLine == <<>>
LineSet ==
    { EmptyLine,
      <<"x">>,
      <<" ", "x">>,
      <<"}">>,
      <<"function f()", "{", "}">>,
      <<"function f()", " ", "{">>,
      <<"func g()", "{">>,
      <<"def foo():">>,
      <<"\t", "def foo():">> }

\* fileContent.split('\n') of the files explored: 1..MaxLines lines
Files == UNION { [1..n -> LineSet] : n \in 1..MaxLines }

\* the extensions explored; ".c" has no entry in `patterns`
Extensions == { ".js", ".py", ".rb", ".go", ".java", ".c" }

\* the line without its leading whitespace (the `^\s*` of every pattern)
RECURSIVE SkipSpace(_)
SkipSpace(line) ==
    IF line # <<>> /\ Head(line) \in Space THEN SkipSpace(Tail(line)) ELSE line

\* the line without leading "x" pieces
RECURSIVE SkipWord(_)
SkipWord(line) ==
    IF line # <<>> /\ Head(line) = "x" THEN SkipWord(Tail(line)) ELSE line

StartsWithOneOf(line, ps) == line # <<>> /\ Head(line) \in ps

\* /^\s*(async\s+)?(function\s+\w+|const\s+\w+\s*=\s*(async\s+)?function|class\s+\w+|\w+\s*:\s*(async\s+)?function)/
JsPattern(line) ==
    StartsWithOneOf(SkipSpace(line), {"function f()", "async function h(p, ...r)", "class A"})
\* /^\s*(def\s+\w+|class\s+\w+)/
PyPattern(line) == StartsWithOneOf(SkipSpace(line), {"def foo():", "def add(a, b):", "class A"})
\* /^\s*func\s+\w+/
GoPattern(line) == StartsWithOneOf(SkipSpace(line), {"func g()"})
\* /^\s*(function\s+\w+|class\s+\w+)/
PhpPattern(line) == StartsWithOneOf(SkipSpace(line), {"function f()", "class A"})
\* /^\s*(public|private|protected)?\s*(static)?\s*(\w+)\s+\w+\s*\([^)]*\)\s*\{/ :
\* two words and a parameter list, then `{`; word characters before the
\* first word only lengthen it
JavaPattern(line) ==
    LET rest == SkipWord(SkipSpace(line))
    IN  /\ StartsWithOneOf(rest, {"function f()", "func g()"})
        /\ StartsWithOneOf(SkipSpace(Tail(rest)), {"{"})

\* pattern.test(line) with pattern = patterns[extension] || patterns['.js']
PatternTest(ext, line) ==
    CASE ext \in {".js", ".ts"} -> JsPattern(line)
      [] ext \in {".py", ".rb"} -> PyPattern(line)
      [] ext = ".java" -> JavaPattern(line)
      [] ext = ".go" -> GoPattern(line)
      [] ext = ".php" -> PhpPattern(line)
      [] OTHER -> JsPattern(line)

\* (line.match(/{/g) || []).length and (line.match(/}/g) || []).length
RECURSIVE CountPiece(_, _)
CountPiece(line, p) ==
    IF line = <<>> THEN 0
    ELSE (IF Head(line) = p THEN 1 ELSE 0) + CountPiece(Tail(line), p)

BracketDelta_OpenOnly(line) == CountPiece(line, "{")
\* openBrackets - closeBrackets of one line
BracketDelta(line) == CountPiece(line, "{") - CountPiece(line, "}")

\* line.startsWith(' ') || line.startsWith('\t')
StartsIndented(line) == line # <<>> /\ Head(line) \in Space

\* ['.py', '.rb'].includes(extension)
UsesIndentation(ext) == ext \in {".py", ".rb"}

\* a variant that keeps the 0-based index
StartLine_ZeroBased(idx) == idx

\* `snippetStart = i + 1; // 1-indexed line numbers`, idx being the 0-based i
StartLine(idx) == idx + 1

\* a variant that applies the bracket test to every language
ClosesAt_BracketsOnly(ext, lns, idx, count) == count <= 0

\* the closing test of the `else if (inSnippet)` branch at 0-based index idx,
\* count being bracketCount after the line was added
ClosesAt(ext, lns, idx, count) ==
    IF UsesIndentation(ext)
    THEN idx + 1 < Len(lns) /\ ~StartsIndented(lns[idx + 2])
    ELSE count <= 0

\* a variant that flushes the unit still open at the end of the file
Returned_Flush(snips, open, start, current) ==
    IF open THEN Append(snips, [code |-> current, lineNumber |-> start]) ELSE snips

\* `return snippets`
Returned(snips, open, start, current) == snips

\* one iteration of the for loop: `if (!inSnippet && pattern.test(line))`
OpenSnippet ==
    /\ pc = "scan"
    /\ i < Len(lines)
    /\ ~inSnippet
    /\ PatternTest(extension, lines[i + 1])
    /\ inSnippet' = TRUE
    /\ snippetStart' = StartLine(i)
    /\ currentSnippet' = << lines[i + 1] >>
    /\ bracketCount' = BracketDelta(lines[i + 1])
    /\ i' = i + 1
    /\ UNCHANGED <<extension, lines, snippets, result, pc>>

\* a variant of the `else if (inSnippet)` iteration that pushes the unit but
\* forgets `inSnippet = false`
ContinueSnippet_StaysOpen ==
    /\ pc = "scan"
    /\ i < Len(lines)
    /\ inSnippet
    /\ LET line == lines[i + 1]
           code == Append(currentSnippet, line)
           count == bracketCount + BracketDelta(line)
       IN  /\ currentSnippet' = code
           /\ bracketCount' = count
           /\ IF ClosesAt(extension, lines, i, count)
              THEN snippets' = Append(snippets, [code |-> code, lineNumber |-> snippetStart])
              ELSE UNCHANGED snippets
    /\ i' = i + 1
    /\ UNCHANGED <<extension, lines, inSnippet, snippetStart, result, pc>>

\* one iteration of the for loop: `else if (inSnippet)`
ContinueSnippet ==
    /\ pc = "scan"
    /\ i < Len(lines)
    /\ inSnippet
    /\ LET line == lines[i + 1]
           code == Append(currentSnippet, line)
           count == bracketCount + BracketDelta(line)
       IN  /\ currentSnippet' = code
           /\ bracketCount' = count
           /\ IF ClosesAt(extension, lines, i, count)
              THEN /\ inSnippet' = FALSE
                   /\ snippets' = Append(snippets, [code |-> code, lineNumber |-> snippetStart])
              ELSE UNCHANGED <<inSnippet, snippets>>
    /\ i' = i + 1
    /\ UNCHANGED <<extension, lines, snippetStart, result, pc>>

\* one iteration of the for loop in which neither branch is taken
SkipLine ==
    /\ pc = "scan"
    /\ i < Len(lines)
    /\ ~inSnippet
    /\ ~PatternTest(extension, lines[i + 1])
    /\ i' = i + 1
    /\ UNCHANGED <<extension, lines, inSnippet, snippetStart, bracketCount,
                   currentSnippet, snippets, result, pc>>

\* the loop is over: `return snippets`
ReturnSnippets ==
    /\ pc = "scan"
    /\ i = Len(lines)
    /\ result' = Returned(snippets, inSnippet, snippetStart, currentSnippet)
    /\ pc' = "done"
    /\ UNCHANGED <<extension, lines, i, inSnippet, snippetStart, bracketCount,
                   currentSnippet, snippets>>

\* a call extractCodeSnippets(fileContent, filePath), locals initialised
ExtInit ==
    /\ extension \in Extensions
    /\ lines \in Files
    /\ i = 0
    /\ inSnippet = FALSE
    /\ snippetStart = 0
    /\ bracketCount = 0
    /\ currentSnippet = << EmptyLine >>
    /\ snippets = <<>>
    /\ result = <<>>
    /\ pc = "scan"

HistIdle ==
    /\ kommentsJson = Absent
    /\ before = Absent
    /\ lastRun = [op |-> "none", n |-> 0, now |-> 0, suggestions |-> <<>>, operation |-> <<>>]
    /\ imported = [file |-> "", interactive |-> FALSE, n |-> 0, count |-> 0, status |-> "none",
                   list |-> <<>>]

InitExtract == ExtInit /\ HistIdle /\ AnaIdle /\ AppIdle /\ StripIdle /\ RemIdle /\ MainIdle

NextExtract ==
    \/ OpenSnippet /\ UNCHANGED <<histVars, anaVars, appVars, stripVars, remVars, mainVars>>
    \/ ContinueSnippet /\ UNCHANGED <<histVars, anaVars, appVars, stripVars, remVars, mainVars>>
    \/ SkipLine /\ UNCHANGED <<histVars, anaVars, appVars, stripVars, remVars, mainVars>>
    \/ ReturnSnippets /\ UNCHANGED <<histVars, anaVars, appVars, stripVars, remVars, mainVars>>

SpecExtract == InitExtract /\ [][NextExtract]_vars

(***************************************************************************)
(* extractCodeSnippets as a function of its arguments                      *)
(***************************************************************************)

\* the for loop of extractCodeSnippets from 0-based index idx on, with the
\* values of its locals; yields what `return snippets` returns
RECURSIVE ScanFrom(_, _, _, _, _, _, _, _)
ScanFrom(ext, lns, idx, open, start, count, current, snips) ==
    IF idx >= Len(lns) THEN Returned(snips, open, start, current)
    ELSE LET line == lns[idx + 1] IN
         IF ~open /\ PatternTest(ext, line)
         THEN ScanFrom(ext, lns, idx + 1, TRUE, StartLine(idx), BracketDelta(line),
                       << line >>, snips)
         ELSE IF open
         THEN LET code == Append(current, line)
                  c == count + BracketDelta(line)
              IN  IF ClosesAt(ext, lns, idx, c)
                  THEN ScanFrom(ext, lns, idx + 1, FALSE, start, c, code,
                                Append(snips, [code |-> code, lineNumber |-> start]))
                  ELSE ScanFrom(ext, lns, idx + 1, TRUE, start, c, code, snips)
         ELSE ScanFrom(ext, lns, idx + 1, open, start, count, current, snips)

\* extractCodeSnippets(fileContent, filePath), fileContent given by its lines
extractCodeSnippets(fileLines, filePath) ==
    ScanFrom(ToLowerCase(ExtName(filePath)), fileLines, 0, FALSE, 0, 0, << EmptyLine >>, <<>>)

(***************************************************************************)
(* Text helpers.  A text is its sequence of lines, a line its sequence of  *)
(* tokens; tokens other than " " and "\t" neither start nor end with       *)
(* whitespace, and no two word tokens are adjacent.                        *)
(***************************************************************************)

\* the finer tokens of the declaration pieces (their text is the same)
Lex(piece) ==
    CASE piece = "function f()" -> <<"function", " ", "f", "(", ")">>
      [] piece = "async function h(p, ...r)" ->
             <<"async", " ", "function", " ", "h", "(", "p", ",", " ", "...", "r", ")">>
      [] piece = "def foo():" -> <<"def", " ", "foo", "(", ")", ":">>
      [] piece = "def add(a, b):" -> <<"def", " ", "add", "(", "a", ",", " ", "b", ")", ":">>
      [] piece = "func g()" -> <<"func", " ", "g", "(", ")">>
      [] piece = "class A" -> <<"class", " ", "A">>
      [] OTHER -> << piece >>

RECURSIVE LexLine(_)
LexLine(line) == IF line = <<>> THEN <<>> ELSE Lex(Head(line)) \o LexLine(Tail(line))

\* tokens made of word characters (\w+)
WordTokens == { "function", "async", "def", "func", "class", "return", "new", "Promise",
                "f", "h", "foo", "add", "g", "A", "a", "b", "p", "r", "x",
                "Adds", "two", "numbers", "sum" }
IsWord(tok) == tok \in WordTokens

\* the line without trailing whitespace
RECURSIVE SkipSpaceEnd(_)
SkipSpaceEnd(line) ==
    IF line # <<>> /\ line[Len(line)] \in Space
    THEN SkipSpaceEnd(SubSeq(line, 1, Len(line) - 1)) ELSE line

\* String.prototype.trim on one line
TrimLine(line) == SkipSpaceEnd(SkipSpace(line))

\* the text without leading whitespace (line breaks included)
RECURSIVE TrimStart(_)
TrimStart(text) ==
    IF Len(text) > 1 /\ SkipSpace(text[1]) = <<>>
    THEN TrimStart(Tail(text))
    ELSE << SkipSpace(text[1]) >> \o Tail(text)

\* the text without trailing whitespace (line breaks included)
RECURSIVE TrimEnd(_)
TrimEnd(text) ==
    IF Len(text) > 1 /\ SkipSpaceEnd(text[Len(text)]) = <<>>
    THEN TrimEnd(SubSeq(text, 1, Len(text) - 1))
    ELSE SubSeq(text, 1, Len(text) - 1) \o << SkipSpaceEnd(text[Len(text)]) >>

\* String.prototype.trim on a text
Trim(text) == TrimEnd(TrimStart(text))

\* String.prototype.length
RECURSIVE LineLength(_)
LineLength(line) == IF line = <<>> THEN 0 ELSE Len(Head(line)) + LineLength(Tail(line))

RECURSIVE Length(_)
Length(text) ==
    IF Len(text) = 1 THEN LineLength(text[1])
    ELSE LineLength(text[1]) + 1 + Length(Tail(text))

\* the empty string
EmptyText == << EmptyLine >>

\* first index k >= from with P at k, or 0: helpers over token lines
IndexOfToken(line, toks) ==
    IF \E k \in 1..Len(line) : line[k] \in toks
    THEN CHOOSE k \in 1..Len(line) :
            /\ line[k] \in toks
            /\ \A m \in 1..(k - 1) : line[m] \notin toks
    ELSE 0

\* line.includes(tok), tok a whole token
Includes(line, tok) == \E k \in 1..Len(line) : line[k] = tok

\* the tokens line[a..b] are exactly toks
HasAt(line, a, toks) ==
    /\ a + Len(toks) - 1 <= Len(line)
    /\ \A k \in 1..Len(toks) : line[a + k - 1] = toks[k]

\* text.includes('return new Promise')
IncludesReturnNewPromise(text) ==
    \E n \in 1..Len(text) : \E a \in 1..Len(text[n]) :
        HasAt(text[n], a, <<"return", " ", "new", " ", "Promise">>)

(***************************************************************************)
(* generateDefaultComment                                                  *)
(***************************************************************************)

\* index of the first token after position k that is not whitespace, given
\* at least one whitespace token at k+1 (the `\s+` of the name pattern); 0 if none
AfterSpaces(line, k) ==
    IF k + 1 <= Len(line) /\ line[k + 1] \in Space
    THEN LET rest == SkipSpace(SubSeq(line, k + 1, Len(line)))
         IN  IF rest = <<>> THEN 0 ELSE Len(line) - Len(rest) + 1
    ELSE 0

\* functionMatch[1] of /(?:function|class|const|let|var)\s+(\w+)|.../i, or "":
\* the word after the first keyword that is followed by whitespace and a word
\* (the second alternative needs a `=`, which no explored line holds)
FunctionMatch(line) ==
    LET kws == {"function", "class", "const", "let", "var"}
        hits == { k \in 1..Len(line) :
                    /\ line[k] \in kws
                    /\ AfterSpaces(line, k) # 0
                    /\ IsWord(line[AfterSpaces(line, k)]) }
    IN  IF hits = {} THEN ""
        ELSE LET k == CHOOSE k \in hits : \A m \in hits : k <= m
             IN  line[AfterSpaces(line, k)]

\* methodMatch[1] of /(\w+)\s*\(/i, or ""
MethodMatch(line) ==
    LET hits == { k \in 1..Len(line) :
                    /\ IsWord(line[k])
                    /\ LET rest == SkipSpace(SubSeq(line, k + 1, Len(line)))
                       IN  rest # <<>> /\ Head(rest) = "(" }
    IN  IF hits = {} THEN ""
        ELSE line[CHOOSE k \in hits : \A m \in hits : k <= m]

\* paramsMatch[1].trim() of /\(([^)]*?)\)/, or the empty line
ParamsMatch(line) ==
    LET open == IndexOfToken(line, {"("})
        rest == IF open = 0 THEN <<>> ELSE SubSeq(line, open + 1, Len(line))
        close == IndexOfToken(rest, {")"})
    IN  IF open = 0 \/ close = 0 THEN <<>>
        ELSE TrimLine(SubSeq(rest, 1, close - 1))

\* line.split(sep): the pieces of a token line between the sep tokens
RECURSIVE SplitLine(_, _)
SplitLine(line, sep) ==
    LET k == IndexOfToken(line, {sep})
    IN  IF k = 0 THEN << line >>
        ELSE << SubSeq(line, 1, k - 1) >> \o SplitLine(SubSeq(line, k + 1, Len(line)), sep)

ParamName_Empty(param) == <<>>
\* param.trim().split(':')[0].split('=')[0].trim()
ParamName(param) ==
    TrimLine(SplitLine(SplitLine(TrimLine(param), ":")[1], "=")[1])

\* name.toLowerCase() on the names explored
NameToLowerCase(name) == IF name = "A" THEN "a" ELSE name

\* the ` * @param <name> Parameter description` lines of the parameters
RECURSIVE ParamLines(_)
ParamLines(paramList) ==
    IF paramList = <<>> THEN <<>>
    ELSE LET paramName == ParamName(Head(paramList))
         IN  (IF paramName # <<>> /\ ~Includes(paramName, "...")
              THEN << <<" ", "*", " ", "@param", " ">> \o paramName
                         \o <<" ", "Parameter", " ", "description">> >>
              ELSE <<>>)
             \o ParamLines(Tail(paramList))

\* generateDefaultComment(codeSnippet, extension); the extension is not used
generateDefaultComment(codeSnippet, ext) ==
    LET firstLine == TrimLine(LexLine(codeSnippet[1]))
        fm == FunctionMatch(firstLine)
        mm == MethodMatch(firstLine)
        name == IF fm # "" THEN fm ELSE IF mm # "" THEN mm ELSE "function"
        params == ParamsMatch(firstLine)
        isAsync == Includes(firstLine, "async") \/ IncludesReturnNewPromise(codeSnippet)
    IN  IF Includes(firstLine, "class")
        THEN << <<"/**">>, <<" ", "*", " ", name, " ", "class">>, <<" ", "*/">> >>
        ELSE << <<"/**">>,
                <<" ", "*", " ", name, " ">>
                   \o (IF isAsync THEN <<"-", " ", "Asynchronously", " ">> ELSE <<>>)
                   \o <<"handles", " ", NameToLowerCase(name), " ", "operation">> >>
             \o (IF params # <<>> THEN ParamLines(SplitLine(params, ",")) ELSE <<>>)
             \o (IF isAsync
                 THEN << <<" ", "*", " ", "@returns", " ", "{", "Promise", "}", " ", "Promise",
                           " ", "that", " ", "resolves", " ", "when", " ", "the", " ",
                           "operation", " ", "completes">> >>
                 ELSE <<>>)
             \o << <<" ", "*/">> >>

(***************************************************************************)
(* analyzeCode                                                             *)
(***************************************************************************)

\* the paths analyzeCode may be given
AnalyzedPaths == { "a.py", "b.js", "c.GO", "gone.js" }

\* fs.readFileSync(filePath) throws for this path
Readable(path) == path \notin { "gone.js", "locked.js" }

\* fs.readFileSync(filePath, 'utf8').split('\n') for the readable paths:
\* a.py is `def add(a, b):\n    return a + b\n`
ReadFileSync(path) ==
    CASE path = "a.py" ->
             << <<"def add(a, b):">>,
                <<" ", " ", " ", " ", "return", " ", "a", " ", "+", " ", "b">>,
                EmptyLine >>
      [] path = "b.js" ->
             << <<"function f()", " ", "{">>, <<"}">>,
                <<"async function h(p, ...r)", " ", "{">>, <<"}">> >>
      [] path = "c.GO" ->
             << <<"func g()", " ", "{">>, <<"x">>, <<"}">> >>
      [] OTHER -> << EmptyLine >>

\* the values of the argument filePaths: lists of distinct paths
FilePathLists ==
    { l \in UNION { [1..n -> AnalyzedPaths] : n \in 1..MaxFiles } :
        \A a \in 1..Len(l), b \in 1..Len(l) : a # b => l[a] # l[b] }

\* what response.text() may be: ``, ` Adds`, `Adds. \n`, `Adds two numbers\n@returns sum`
Replies ==
    { << EmptyLine >>,
      << <<" ", "Adds">> >>,
      << <<"Adds.", " ">>, EmptyLine >>,
      << <<"Adds", " ", "two", " ", "numbers">>, <<"@returns", " ", "sum">> >> }

getLanguageFromExtension(ext) ==
    LET e == ToLowerCase(ext)
    IN  CASE e = ".js" -> "JavaScript"
          [] e = ".jsx" -> "JavaScript (React)"
          [] e = ".ts" -> "TypeScript"
          [] e = ".tsx" -> "TypeScript (React)"
          [] e = ".py" -> "Python"
          [] e = ".java" -> "Java"
          [] e = ".c" -> "C"
          [] e = ".cpp" -> "C++"
          [] e = ".cs" -> "C#"
          [] e = ".go" -> "Go"
          [] e = ".rb" -> "Ruby"
          [] e = ".php" -> "PHP"
          [] e = ".swift" -> "Swift"
          [] e = ".rs" -> "Rust"
          [] e = ".html" -> "HTML"
          [] e = ".css" -> "CSS"
          [] e = ".scss" -> "SCSS"
          [] OTHER -> "JavaScript"

\* generatePrompt: the two things the fixed prompt text is filled with
generatePrompt(codeSnippet, ext) ==
    [language |-> getLanguageFromExtension(ext), code |-> codeSnippet]

NeedsDefault_EmptyOnly(comment) == comment = EmptyText
\* !suggestedComment || suggestedComment.length < 5
NeedsDefault(comment) == comment = EmptyText \/ Length(comment) < 5

\* the comment analyzeCode stores for a reply of the backend
SuggestedComment(reply, code, ext) ==
    LET suggestedComment == Trim(reply)
    IN  IF NeedsDefault(suggestedComment)
        THEN generateDefaultComment(code, ext)
        ELSE suggestedComment

\* snippet.code.split('\n')[0] + (snippet.code.split('\n').length > 1 ? '...' : '')
CodeSnippetLabel(code) == code[1] \o (IF Len(code) > 1 THEN <<"...">> ELSE <<>>)

AwaitCall_NotAwaited == "unit"
\* `await model.generateContent(...)`: analyzeCode is suspended until the call settles
AwaitCall == "await"

AfterCatch_Retry(idx) == idx
\* the for..of loop after the catch block of a unit: the next unit
AfterCatch(idx) == idx + 1

\* fs.readFileSync and extractCodeSnippets for filePaths[i]
ReadFile ==
    /\ apc = "file"
    /\ fileIndex < Len(filePaths)
    /\ Readable(filePaths[fileIndex + 1])
    /\ codeSnippets' = extractCodeSnippets(ReadFileSync(filePaths[fileIndex + 1]),
                                           filePaths[fileIndex + 1])
    /\ snippetIndex' = 1
    /\ apc' = "unit"
    /\ UNCHANGED <<filePaths, fileIndex, allSuggestions, requests, outstanding>>

\* fs.readFileSync throws: the outer catch logs, progressBar.update(i + 1), next file
ReadFileThrows ==
    /\ apc = "file"
    /\ fileIndex < Len(filePaths)
    /\ ~Readable(filePaths[fileIndex + 1])
    /\ fileIndex' = fileIndex + 1
    /\ UNCHANGED <<filePaths, codeSnippets, snippetIndex, allSuggestions, requests,
                   outstanding, apc>>

\* generatePrompt and the call of model.generateContent for the next unit
IssueRequest ==
    /\ apc = "unit"
    /\ snippetIndex <= Len(codeSnippets)
    /\ LET filePath == filePaths[fileIndex + 1]
           snippet == codeSnippets[snippetIndex]
       IN  requests' = Append(requests,
                              [file |-> filePath, fileNo |-> fileIndex + 1,
                               unit |-> snippetIndex, line |-> snippet.lineNumber,
                               prompt |-> generatePrompt(snippet.code, ExtName(filePath)),
                               outcome |-> "pending", reply |-> EmptyText])
    /\ outstanding' = outstanding + 1
    /\ apc' = AwaitCall
    /\ UNCHANGED <<filePaths, fileIndex, codeSnippets, snippetIndex, allSuggestions>>

\* the call returns: trim, fall back to the template, push the suggestion
BackendReplies ==
    /\ apc = "await"
    /\ \E reply \in Replies :
          LET filePath == filePaths[fileIndex + 1]
              snippet == codeSnippets[snippetIndex]
          IN  /\ allSuggestions' =
                    Append(allSuggestions,
                           [file |-> filePath,
                            line |-> snippet.lineNumber,
                            codeSnippet |-> CodeSnippetLabel(snippet.code),
                            suggestedComment |->
                                SuggestedComment(reply, snippet.code, ExtName(filePath))])
              /\ requests' = [requests EXCEPT ![Len(requests)].outcome = "returned",
                                              ![Len(requests)].reply = reply]
    /\ outstanding' = outstanding - 1
    /\ snippetIndex' = snippetIndex + 1
    /\ apc' = "unit"
    /\ UNCHANGED <<filePaths, fileIndex, codeSnippets>>

\* the call (or response.text()) throws: the inner catch logs the error
BackendThrows ==
    /\ apc = "await"
    /\ requests' = [requests EXCEPT ![Len(requests)].outcome = "threw"]
    /\ outstanding' = outstanding - 1
    /\ snippetIndex' = AfterCatch(snippetIndex)
    /\ apc' = "unit"
    /\ UNCHANGED <<filePaths, fileIndex, codeSnippets, allSuggestions>>

\* the for..of loop is over: progressBar.update(i + 1), next file
EndOfFile ==
    /\ apc = "unit"
    /\ snippetIndex > Len(codeSnippets)
    /\ fileIndex' = fileIndex + 1
    /\ apc' = "file"
    /\ UNCHANGED <<filePaths, codeSnippets, snippetIndex, allSuggestions, requests,
                   outstanding>>

\* `return allSuggestions`
ReturnSuggestions ==
    /\ apc = "file"
    /\ fileIndex = Len(filePaths)
    /\ apc' = "done"
    /\ UNCHANGED <<filePaths, fileIndex, codeSnippets, snippetIndex, allSuggestions,
                   requests, outstanding>>

AnaInit ==
    /\ filePaths \in FilePathLists
    /\ fileIndex = 0
    /\ codeSnippets = <<>>
    /\ snippetIndex = 0
    /\ allSuggestions = <<>>
    /\ requests = <<>>
    /\ outstanding = 0
    /\ apc = "file"

InitAnalyze == AnaInit /\ HistIdle /\ ExtIdle /\ AppIdle /\ StripIdle /\ RemIdle /\ MainIdle

NextAnalyze ==
    \/ ReadFile /\ UNCHANGED <<histVars, extVars, appVars, stripVars, remVars, mainVars>>
    \/ ReadFileThrows /\ UNCHANGED <<histVars, extVars, appVars, stripVars, remVars, mainVars>>
    \/ IssueRequest /\ UNCHANGED <<histVars, extVars, appVars, stripVars, remVars, mainVars>>
    \/ BackendReplies /\ UNCHANGED <<histVars, extVars, appVars, stripVars, remVars, mainVars>>
    \/ BackendThrows /\ UNCHANGED <<histVars, extVars, appVars, stripVars, remVars, mainVars>>
    \/ EndOfFile /\ UNCHANGED <<histVars, extVars, appVars, stripVars, remVars, mainVars>>
    \/ ReturnSuggestions /\ UNCHANGED <<histVars, extVars, appVars, stripVars, remVars, mainVars>>

SpecAnalyze == InitAnalyze /\ [][NextAnalyze]_vars

(***************************************************************************)
(* Applying suggestions: applyCommentToFile, applySuggestions and the      *)
(* bulk loop of importSuggestions                                          *)
(***************************************************************************)

getCommentStyle(ext) ==
    LET key == ToLowerCase(ext)
    IN  CASE key \in {".py", ".rb"} -> [prefix |-> "#", suffix |-> ""]
          [] key = ".html" -> [prefix |-> "<!--", suffix |-> "-->"]
          [] key = ".css" -> [prefix |-> "/*", suffix |-> "*/"]
          [] OTHER -> [prefix |-> "//", suffix |-> ""]

\* the tags that make a comment a JSDoc comment
JsDocTags == { "@param", "@return", "@returns", "@description", "@example", "@typedef",
               "@type", "@function", "@class" }

IsJSDocComment_Never(ext, comment) == FALSE
\* the isJSDocComment test
IsJSDocComment(ext, comment) ==
    /\ ext \in {".js", ".jsx", ".ts", ".tsx"}
    /\ \E n \in 1..Len(comment) : \E k \in 1..Len(comment[n]) : comment[n][k] \in JsDocTags

\* comment.startsWith(tok) and comment.endsWith(tok), tok a whole token
StartsWith(text, tok) == text[1] # <<>> /\ text[1][1] = tok
EndsWith(text, tok) ==
    text[Len(text)] # <<>> /\ text[Len(text)][Len(text[Len(text)])] = tok

\* line.trim(), and when that starts with `//`, `*` or `/*`:
\* .replace(/^\/\/|^\*|^\/\*/, '').trim()
CleanLine(line) ==
    LET cleanLine == TrimLine(line)
    IN  IF cleanLine = <<>> THEN cleanLine
        ELSE CASE Head(cleanLine) \in {"//", "*", "/*"} -> TrimLine(Tail(cleanLine))
               [] Head(cleanLine) = "/**" -> TrimLine(<<"*">> \o Tail(cleanLine))
               [] Head(cleanLine) = "*/" -> TrimLine(<<"/">> \o Tail(cleanLine))
               [] OTHER -> cleanLine

\* '/**\n' + ` * ${cleanLine}\n` for each line + ' */'
JsDocComment(comment) ==
    << <<"/**">> >>
    \o [n \in 1..Len(comment) |-> <<" ", "*", " ">> \o CleanLine(comment[n])]
    \o << <<" ", "*/">> >>

BlockComment_FirstLineOnly(prefix, comment, suffix) ==
    << <<prefix, " ">> \o comment[1] \o <<" ", suffix>> >>
\* `${prefix} ${comment} ${suffix}`
BlockComment(prefix, comment, suffix) ==
    IF Len(comment) = 1
    THEN << <<prefix, " ">> \o comment[1] \o <<" ", suffix>> >>
    ELSE << <<prefix, " ">> \o comment[1] >>
         \o SubSeq(comment, 2, Len(comment) - 1)
         \o << comment[Len(comment)] \o <<" ", suffix>> >>

\* comment.split('\n').map(line => `${prefix} ${line}`).join('\n')
LineComments(prefix, comment) == [n \in 1..Len(comment) |-> <<prefix, " ">> \o comment[n]]

\* formattedComment of applyCommentToFile, as its lines
FormatComment(ext, comment) ==
    LET style == getCommentStyle(ext)
    IN  IF IsJSDocComment(ext, comment)
        THEN IF StartsWith(comment, "/**") /\ EndsWith(comment, "*/")
             THEN comment
             ELSE JsDocComment(comment)
        ELSE IF style.suffix # ""
        THEN BlockComment(style.prefix, comment, style.suffix)
        ELSE IF Len(comment) > 1
        THEN LineComments(style.prefix, comment)
        ELSE << <<style.prefix, " ">> \o comment[1] >>

Min(a, b) == IF a < b THEN a ELSE b
Max(a, b) == IF a > b THEN a ELSE b

SpliceStart_OneBased(lineNumber) == lineNumber
\* the first argument of lines.splice(lineNumber - 1, 0, formattedComment)
SpliceStart(lineNumber) == lineNumber - 1

Splice_Overwrite(arr, start, items) ==
    LET s == IF start < 0 THEN Max(Len(arr) + start, 0) ELSE Min(start, Len(arr))
    IN  SubSeq(arr, 1, s) \o items \o SubSeq(arr, s + 2, Len(arr))
\* arr.splice(start, 0, item) followed by join('\n'): an item of several lines
\* is several lines of the file
Splice(arr, start, items) ==
    LET s == IF start < 0 THEN Max(Len(arr) + start, 0) ELSE Min(start, Len(arr))
    IN  SubSeq(arr, 1, s) \o items \o SubSeq(arr, s + 1, Len(arr))

\* applyCommentToFile on the disk d: whether it threw, and the disk it leaves.
\* readFileSync throws for a missing file, writeFileSync for a read-only one.
applyCommentToFile(d, filePath, lineNumber, comment) ==
    IF d[filePath].state = "missing" THEN [threw |-> TRUE, disk |-> d]
    ELSE LET fileLines == d[filePath].content
             ext == ToLowerCase(ExtName(filePath))
             formattedComment == FormatComment(ext, comment)
             newLines == Splice(fileLines, SpliceStart(lineNumber), formattedComment)
         IN  IF d[filePath].state = "readonly" THEN [threw |-> TRUE, disk |-> d]
             ELSE [threw |-> FALSE, disk |-> [d EXCEPT ![filePath].content = newLines]]

\* the source files when the pass starts
DiskPaths == { "a.js", "b.py", "p.css", "h.html", "ro.py", "gone.js" }
InitialDisk ==
    [ p \in DiskPaths |->
        CASE p = "a.js" -> [state |-> "ok", content |-> << <<"A1">>, <<"A2">>, <<"A3">> >>]
          [] p = "b.py" -> [state |-> "ok", content |-> << <<"B1">> >>]
          [] p = "p.css" -> [state |-> "ok", content |-> << <<"P1">>, <<"P2">> >>]
          [] p = "h.html" -> [state |-> "ok", content |-> << <<"H1">> >>]
          [] p = "ro.py" -> [state |-> "readonly", content |-> << <<"R1">> >>]
          [] OTHER -> [state |-> "missing", content |-> << EmptyLine >>] ]

\* comment bodies: `Adds.`, `Adds\nnumbers`, `// @returns sum`, a complete
\* JSDoc block, and the one-line block `/** @type x */`
PlainBody == << <<"Adds.">> >>
MultiBody == << <<"Adds">>, <<"numbers">> >>
TaggedBody == << <<"//", " ", "@returns", " ", "sum">> >>
JsDocBody == << <<"/**">>, <<" ", "*", " ", "@param", " ", "a">>, <<" ", "*/">> >>
OneLineJsDoc == << <<"/**", " ", "@type", " ", "x", " ", "*/">> >>

\* what the editor prompt may return: the JSDoc block followed by a newline
EditedComments == { JsDocBody \o << EmptyLine >> }

ApplySugg(f, l, c) == [file |-> f, line |-> l, suggestedComment |-> c]

\* the suggestions a pass may be given
Candidates ==
    { ApplySugg("a.js", l, c) :
        l \in 1..3, c \in {PlainBody, MultiBody, TaggedBody, JsDocBody} }
    \cup { ApplySugg("p.css", l, c) : l \in 1..2, c \in {PlainBody, MultiBody} }
    \cup { ApplySugg("a.js", 1, OneLineJsDoc),
           ApplySugg("b.py", 1, PlainBody),
           ApplySugg("b.py", 1, TaggedBody),
           ApplySugg("h.html", 1, MultiBody),
           ApplySugg("ro.py", 1, PlainBody),
           ApplySugg("gone.js", 1, PlainBody) }

SuggestionLists == UNION { [1..n -> Candidates] : n \in 1..MaxSuggestions }

NextSuggestion_Reversed(list, idx) == list[Len(list) - idx]
\* suggestions[i] of the for loops, idx being the 0-based i
NextSuggestion(list, idx) == list[idx + 1]

OnApplyError_Propagates == "aborted"
\* the catch block around applyCommentToFile logs the error; the loop goes on
OnApplyError == "loop"

CommentToApply_Original(action, suggestedComment, editedComment) == suggestedComment
\* commentToApply of applySuggestions: the editor's text after 'edit'
CommentToApply(action, suggestedComment, editedComment) ==
    IF action = "edit" THEN editedComment ELSE suggestedComment

\* the value of the property f of the object e (undefined when e has none)
Undefined == "undefined"
Prop(e, f) == IF f \in DOMAIN e THEN e[f] ELSE Undefined

\* what the loop records about one suggestion
LogEntry(s, action, comment, r, d) ==
    [suggestion |-> s, action |-> action, comment |-> comment,
     outcome |-> IF action \in {"skip", "exit"} THEN action
                 ELSE IF r.threw THEN "failed" ELSE "applied",
     formatted |-> IF Prop(s, "file") = Undefined THEN EmptyText
                   ELSE FormatComment(ToLowerCase(ExtName(s.file)), comment),
     diskBefore |-> d, diskAfter |-> r.disk]

\* one round of a loop that calls applyCommentToFile with the given comment
ApplyOne(action, comment) ==
    LET s == NextSuggestion(toApply, applyIndex)
        \* path.isAbsolute(undefined) throws
        r == IF Prop(s, "file") = Undefined THEN [threw |-> TRUE, disk |-> disk]
             ELSE applyCommentToFile(disk, s.file, s.line, comment)
    IN  /\ disk' = r.disk
        /\ applyLog' = Append(applyLog, LogEntry(s, action, comment, r, disk))
        /\ applyIndex' = applyIndex + 1
        /\ appc' = IF r.threw THEN OnApplyError ELSE "loop"
        /\ UNCHANGED <<toApply, interactiveMode>>

\* one round of the bulk loop of importSuggestions
BulkApply ==
    /\ ~interactiveMode /\ appc = "loop"
    /\ applyIndex < Len(toApply)
    /\ ApplyOne("bulk", Prop(NextSuggestion(toApply, applyIndex), "suggestedComment"))

\* the bulk loop is over
BulkDone ==
    /\ ~interactiveMode /\ appc = "loop"
    /\ applyIndex = Len(toApply)
    /\ appc' = "done"
    /\ UNCHANGED <<disk, toApply, interactiveMode, applyIndex, applyLog>>

\* applySuggestions, answer 'apply'
AnswerApply ==
    /\ interactiveMode /\ appc = "loop"
    /\ applyIndex < Len(toApply)
    /\ LET s == NextSuggestion(toApply, applyIndex)
       IN  ApplyOne("apply", CommentToApply("apply", Prop(s, "suggestedComment"), Prop(s, "suggestedComment")))

\* applySuggestions, answer 'edit' and the text the editor returns
AnswerEdit ==
    /\ interactiveMode /\ appc = "loop"
    /\ applyIndex < Len(toApply)
    /\ \E editedComment \in EditedComments :
          LET s == NextSuggestion(toApply, applyIndex)
          IN  ApplyOne("edit", CommentToApply("edit", Prop(s, "suggestedComment"), editedComment))

\* applySuggestions, answer 'skip': continue
AnswerSkip ==
    /\ interactiveMode /\ appc = "loop"
    /\ applyIndex < Len(toApply)
    /\ LET s == NextSuggestion(toApply, applyIndex)
       IN  applyLog' = Append(applyLog,
                              LogEntry(s, "skip", Prop(s, "suggestedComment"),
                                       [threw |-> FALSE, disk |-> disk], disk))
    /\ applyIndex' = applyIndex + 1
    /\ UNCHANGED <<disk, toApply, interactiveMode, appc>>

\* applySuggestions, answer 'exit': break
AnswerExit ==
    /\ interactiveMode /\ appc = "loop"
    /\ applyIndex < Len(toApply)
    /\ LET s == NextSuggestion(toApply, applyIndex)
       IN  applyLog' = Append(applyLog,
                              LogEntry(s, "exit", Prop(s, "suggestedComment"),
                                       [threw |-> FALSE, disk |-> disk], disk))
    /\ appc' = "done"
    /\ UNCHANGED <<disk, toApply, interactiveMode, applyIndex>>

\* the loop of applySuggestions is over
InteractiveDone ==
    /\ interactiveMode /\ appc = "loop"
    /\ applyIndex = Len(toApply)
    /\ appc' = "done"
    /\ UNCHANGED <<disk, toApply, interactiveMode, applyIndex, applyLog>>

AppInit ==
    /\ disk = InitialDisk
    /\ toApply \in SuggestionLists
    /\ interactiveMode \in BOOLEAN
    /\ applyIndex = 0
    /\ applyLog = <<>>
    /\ appc = "loop"

InitApply == AppInit /\ HistIdle /\ ExtIdle /\ AnaIdle /\ StripIdle /\ RemIdle /\ MainIdle

NextApply ==
    \/ BulkApply /\ UNCHANGED <<histVars, extVars, anaVars, stripVars, remVars, mainVars>>
    \/ BulkDone /\ UNCHANGED <<histVars, extVars, anaVars, stripVars, remVars, mainVars>>
    \/ AnswerApply /\ UNCHANGED <<histVars, extVars, anaVars, stripVars, remVars, mainVars>>
    \/ AnswerEdit /\ UNCHANGED <<histVars, extVars, anaVars, stripVars, remVars, mainVars>>
    \/ AnswerSkip /\ UNCHANGED <<histVars, extVars, anaVars, stripVars, remVars, mainVars>>
    \/ AnswerExit /\ UNCHANGED <<histVars, extVars, anaVars, stripVars, remVars, mainVars>>
    \/ InteractiveDone /\ UNCHANGED <<histVars, extVars, anaVars, stripVars, remVars, mainVars>>

SpecApply == InitApply /\ [][NextApply]_vars

(***************************************************************************)
(* The runs against komments.json: saveSuggestions and importSuggestions   *)
(* with its loops (the comment-removal run is SpecRemove)                  *)
(***************************************************************************)

\* the source files are there and no loop has been started
AppStandby ==
    /\ disk = InitialDisk
    /\ toApply = <<>>
    /\ interactiveMode = FALSE
    /\ applyIndex = 0
    /\ applyLog = <<>>
    /\ appc = "idle"

InitHistory == HistInit /\ AppStandby /\ ExtIdle /\ AnaIdle /\ StripIdle /\ RemIdle /\ MainIdle

\* a run is a process of its own: it starts once the loop of an earlier
\* import is over, and nothing is left of that loop but the files it wrote
NewProcess ==
    /\ appc # "loop"
    /\ toApply' = <<>>
    /\ interactiveMode' = FALSE
    /\ applyIndex' = 0
    /\ applyLog' = <<>>
    /\ appc' = "idle"

NextHistory ==
    \/ saveSuggestions /\ NewProcess
          /\ UNCHANGED <<disk, extVars, anaVars, stripVars, remVars, mainVars>>
    \/ importSuggestions /\ UNCHANGED <<extVars, anaVars, stripVars, remVars, mainVars>>
    \/ BulkApply /\ UNCHANGED <<histVars, extVars, anaVars, stripVars, remVars, mainVars>>
    \/ BulkDone /\ UNCHANGED <<histVars, extVars, anaVars, stripVars, remVars, mainVars>>
    \/ AnswerApply /\ UNCHANGED <<histVars, extVars, anaVars, stripVars, remVars, mainVars>>
    \/ AnswerEdit /\ UNCHANGED <<histVars, extVars, anaVars, stripVars, remVars, mainVars>>
    \/ AnswerSkip /\ UNCHANGED <<histVars, extVars, anaVars, stripVars, remVars, mainVars>>
    \/ AnswerExit /\ UNCHANGED <<histVars, extVars, anaVars, stripVars, remVars, mainVars>>
    \/ InteractiveDone /\ UNCHANGED <<histVars, extVars, anaVars, stripVars, remVars, mainVars>>

SpecHistory == InitHistory /\ [][NextHistory]_vars

(***************************************************************************)
(* The stripper: removeCommentsFromContent                                 *)
(*                                                                         *)
(* Its regular expressions work on characters, so a content is held as its *)
(* sequence of characters.  A character is a one-character string; a token *)
(* that holds no delimiter character and no whitespace (a word such as     *)
(* "Adds.") stands for its characters as one element.                      *)
(***************************************************************************)

\* the characters of a token
Chars(tok) ==
    CASE tok = "//" -> <<"/", "/">>
      [] tok = "/*" -> <<"/", "*">>
      [] tok = "*/" -> <<"*", "/">>
      [] tok = "/**" -> <<"/", "*", "*">>
      [] tok = "<!--" -> <<"<", "!", "-", "-">>
      [] tok = "-->" -> <<"-", "-", ">">>
      [] tok = "..." -> <<".", ".", ".">>
      [] OTHER -> << tok >>

RECURSIVE LineChars(_)
LineChars(line) == IF line = <<>> THEN <<>> ELSE Chars(Head(line)) \o LineChars(Tail(line))

\* lines.join('\n') as characters
RECURSIVE Join(_)
Join(text) ==
    IF Len(text) = 1 THEN LineChars(text[1])
    ELSE LineChars(text[1]) \o <<"\n">> \o Join(Tail(text))

\* the regular expression class \s on the characters explored
Whitespace == { " ", "\t", "\n" }

\* content.indexOf(pat, from) with 1-based positions, 0 when absent
IndexOf(content, pat, from) ==
    LET hits == { p \in from..(Len(content) - Len(pat) + 1) :
                    SubSeq(content, p, p + Len(pat) - 1) = pat }
    IN  IF hits = {} THEN 0 ELSE CHOOSE p \in hits : \A q \in hits : p <= q

\* content.replace(new RegExp(`${escPrefix}[\\s\\S]*?${escSuffix}`, 'g'), ...) with
\* the count++ of its callback: every leftmost, shortest span from a prefix
\* through the next suffix is removed
RECURSIVE RemoveBlocks(_, _, _)
RemoveBlocks(content, pre, suf) ==
    LET p == IndexOf(content, pre, 1)
        q == IF p = 0 THEN 0 ELSE IndexOf(content, suf, p + Len(pre))
    IN  IF q = 0 THEN [content |-> content, count |-> 0]
        ELSE LET rest == RemoveBlocks(SubSeq(content, q + Len(suf), Len(content)), pre, suf)
             IN  [content |-> SubSeq(content, 1, p - 1) \o rest.content,
                  count |-> 1 + rest.count]

\* the last position of the line that holds position p
EndOfLine(content, p) ==
    CHOOSE e \in p..Len(content) :
        /\ e = Len(content) \/ content[e + 1] = "\n"
        /\ \A m \in (p + 1)..e : content[m] # "\n"

\* content.replace(new RegExp(`${escPrefix}.*?$`, 'gm'), ...) with the count++
\* of its callback: every prefix is removed through the end of its line
RECURSIVE RemoveLineComments(_, _)
RemoveLineComments(content, pre) ==
    LET p == IndexOf(content, pre, 1)
    IN  IF p = 0 THEN [content |-> content, count |-> 0]
        ELSE LET e == EndOfLine(content, p + Len(pre) - 1)
                 rest == RemoveLineComments(SubSeq(content, e + 1, Len(content)), pre)
             IN  [content |-> SubSeq(content, 1, p - 1) \o rest.content,
                  count |-> 1 + rest.count]

\* the last position of the run of whitespace that starts at position p
RunEnd(content, p) ==
    CHOOSE e \in p..Len(content) :
        /\ \A m \in p..e : content[m] \in Whitespace
        /\ e = Len(content) \/ content[e + 1] \notin Whitespace

\* the positions of the newlines in content[p..e]
NewlinesIn(content, p, e) == { m \in p..e : content[m] = "\n" }

\* content.replace(/\n\s*\n\s*\n/g, '\n\n'): a run of whitespace from a newline
\* on that holds three newlines or more is replaced, through its last
\* newline, by two newlines
RECURSIVE CollapseBlankLines(_)
CollapseBlankLines(content) ==
    LET starts == { p \in 1..Len(content) :
                      /\ content[p] = "\n"
                      /\ Cardinality(NewlinesIn(content, p, RunEnd(content, p))) >= 3 }
    IN  IF starts = {} THEN content
        ELSE LET p == CHOOSE a \in starts : \A b \in starts : a <= b
                 nl == NewlinesIn(content, p, RunEnd(content, p))
                 last == CHOOSE a \in nl : \A b \in nl : b <= a
             IN  SubSeq(content, 1, p - 1) \o <<"\n", "\n">>
                 \o CollapseBlankLines(SubSeq(content, last + 1, Len(content)))

ScriptBlockPass_Skipped(ext, r) == r
\* the pass for .js/.jsx/.ts/.tsx: /\/\*[\s\S]*?\*\//g
ScriptBlockPass(ext, r) ==
    IF ext \in {".js", ".jsx", ".ts", ".tsx"}
    THEN LET b == RemoveBlocks(r.content, <<"/", "*">>, <<"*", "/">>)
         IN  [content |-> b.content, count |-> r.count + b.count]
    ELSE r

\* removeCommentsFromContent(content, extension, prefix, suffix); prefix and
\* suffix are given as tokens; escapeRegExp makes them match literally
removeCommentsFromContent(content, ext, prefix, suffix) ==
    LET first == IF suffix # ""
                 THEN RemoveBlocks(content, Chars(prefix), Chars(suffix))
                 ELSE RemoveLineComments(content, Chars(prefix))
        second == ScriptBlockPass(ext, first)
    IN  [content |-> CollapseBlankLines(second.content), count |-> second.count]

\* the call removeComments makes for a file with this extension
StripFile(content, ext) ==
    removeCommentsFromContent(content, ToLowerCase(ext),
                              getCommentStyle(ToLowerCase(ext)).prefix,
                              getCommentStyle(ToLowerCase(ext)).suffix)

\* the characters contents are built from, by extension
Alphabet(ext) ==
    CASE ext = ".css" -> {"/", "*", "x"}
      [] ext = ".js" -> {"/", "*", "\n", "x"}
      [] OTHER -> {"#", "\n", " ", "x"}

\* all contents of up to MaxChars characters (MaxScriptChars for the scripts)
RawContents(ext) ==
    UNION { [1..n -> Alphabet(ext)] :
              n \in 0..(IF ext = ".css" THEN MaxChars ELSE MaxScriptChars) }

\* a JS file holding one `/* old */` block comment and one `// trailing`
\* line comment
ExampleJs ==
    << <<"x", " ", "/*", " ", "old", " ", "*/">>, <<"y", " ", "//", " ", "trailing">>, <<"z">> >>

\* the file of a suggestion after applyCommentToFile on the initial disk
Inserted(s) ==
    applyCommentToFile(InitialDisk, s.file, s.line, s.suggestedComment).disk[s.file].content

NoSuggestion == ApplySugg("", 0, EmptyText)

\* the first calls explored: arbitrary contents, the example, and files into
\* which applyCommentToFile has just inserted a comment
StripCases ==
    { [origin |-> "raw", ext |-> e, content |-> c, suggestion |-> NoSuggestion] :
        e \in {".js"}, c \in RawContents(".js") }
    \cup { [origin |-> "raw", ext |-> e, content |-> c, suggestion |-> NoSuggestion] :
        e \in {".css"}, c \in RawContents(".css") }
    \cup { [origin |-> "raw", ext |-> e, content |-> c, suggestion |-> NoSuggestion] :
        e \in {".py"}, c \in RawContents(".py") }
    \cup { [origin |-> "example", ext |-> ".js", content |-> Join(ExampleJs),
            suggestion |-> NoSuggestion] }
    \cup { [origin |-> "inserted", ext |-> ExtName(s.file), content |-> Join(Inserted(s)),
            suggestion |-> s] :
           s \in { c \in Candidates : InitialDisk[c.file].state = "ok" } }

\* the first call
StripOnce ==
    /\ Len(stripRuns) = 0
    /\ stripRuns' = << StripFile(stripCase.content, stripCase.ext) >>
    /\ UNCHANGED stripCase

\* a second call, on the content the first one returned
StripAgain ==
    /\ Len(stripRuns) = 1
    /\ stripRuns' = Append(stripRuns, StripFile(stripRuns[1].content, stripCase.ext))
    /\ UNCHANGED stripCase

StripInit ==
    /\ stripCase \in StripCases
    /\ stripRuns = <<>>

InitStrip == StripInit /\ HistIdle /\ ExtIdle /\ AnaIdle /\ AppIdle /\ RemIdle /\ MainIdle

NextStrip ==
    \/ StripOnce /\ UNCHANGED <<histVars, extVars, anaVars, appVars, remVars, mainVars>>
    \/ StripAgain /\ UNCHANGED <<histVars, extVars, anaVars, appVars, remVars, mainVars>>

SpecStrip == InitStrip /\ [][NextStrip]_vars

(***************************************************************************)
(* removeComments                                                          *)
(***************************************************************************)

\* the source files of the working directory
RemovePaths == { "a.js", "blank.py", "c.css", "gone.js", "ro.py", "README" }

\* the working directory: a.js holds a block and a line comment, blank.py no
\* comment but a run of blank lines, c.css a block comment, ro.py a comment
\* but cannot be written, README has no extension, gone.js does not exist
FullTree ==
    [ p \in RemovePaths |->
        CASE p = "a.js" -> [state |-> "ok", content |-> Join(ExampleJs)]
          [] p = "blank.py" -> [state |-> "ok", content |-> <<"x", "\n", "\n", "\n", "y">>]
          [] p = "c.css" -> [state |-> "ok", content |-> <<"/", "*", "c", "*", "/", "\n", "x">>]
          [] p = "ro.py" -> [state |-> "readonly", content |-> <<"#", " ", "c", "\n", "x">>]
          [] p = "README" -> [state |-> "ok", content |-> <<"#", "x">>]
          [] OTHER -> [state |-> "missing", content |-> <<>>] ]

\* a working directory without code files
EmptyTree ==
    [ p \in RemovePaths |->
        IF p = "README" THEN FullTree[p] ELSE [state |-> "missing", content |-> <<>>] ]

Trees == { FullTree, EmptyTree }

\* a suggestion whose comment starts with the line-comment delimiter, and a
\* history of two generations, the second holding it
sD == Sugg("a.js", 2, << <<"//", "adds">> >>)
CommentedHistory ==
    ArrayDoc(<< NewGeneration(1, <<sA>>, collectCodebaseInfo(<<"a.js">>)),
                NewGeneration(2, <<sD>>, collectCodebaseInfo(<<"a.js", "komments.json">>)) >>)

\* texts the tool did not write. WithNote(doc): the text of doc with ` // note`
\* after its last character, which does not parse. UrlObject: the object
\* {"url": "http://x"}, one line whose string holds //.
WithNote(doc) == [kind |-> "unparseable", items |-> <<>>, value |-> doc]
UrlObject == [kind |-> "nonarray", items |-> <<>>, slashes |-> 1]

\* komments.json before a run of removeComments
RemoveHistories ==
    InitialFiles \cup
    { CommentedHistory, UrlObject,
      WithNote(ArrayDoc(<< NewGeneration(1, <<sA>>, collectCodebaseInfo(<<"a.js">>)) >>)) }

\* `GOOGLE_GEMINI_API_KEY=${apiKey}\n`, the text of .env and .env.local
EnvContent(key) == << "GOOGLE_GEMINI_API_KEY=", key, "\n" >>

\* scanCodebase(): the full paths of the files whose name has an extension
\* (getCommentStyle has a style for every extension)
scanCodebase(t, file, env) ==
    LET entries == readdirSync(t, file, env)
        withExt == SelectSeq(entries, LAMBDA name : ToLowerCase(ExtName(name)) # "")
    IN  [ k \in 1..Len(withExt) |-> PathJoin(Cwd, withExt[k]) ]

\* the values of the argument filePaths: none (undefined or []), or distinct
\* paths relative to the working directory
RemovePathLists ==
    { <<>> } \cup
    { l \in UNION { [1..n -> (RemovePaths \ {"README"}) \cup {"komments.json"}] :
                      n \in 1..MaxFiles } :
        \A a \in 1..Len(l), b \in 1..Len(l) : a # b => l[a] # l[b] }

\* the record removeComments returns when nothing was done
EmptyOperation(t) ==
    [timestamp |-> ToISOString(t), filesProcessed |-> <<>>, commentsRemoved |-> 0,
     details |-> <<>>]

Cancelled_Never(confirm) == FALSE
\* `if (!confirm)` after the confirmation prompt
Cancelled(confirm) == ~confirm

\* `if (count > 0)`: only write back if comments were removed
ShouldWrite(count) == count > 0

\* the text has a line that holds the delimiter //
HasLineComment(text) ==
    \E l \in 1..Len(text) : \E k \in 1..Len(text[l]) : text[l][k] = "//"

\* the suggestions of a list whose comment holds //
CommentLinesIn(list) ==
    Cardinality({ k \in 1..Len(list) :
                    /\ "suggestedComment" \in DOMAIN list[k]
                    /\ HasLineComment(list[k].suggestedComment) })

RECURSIVE GenerationCommentLines(_, _)
GenerationCommentLines(items, k) ==
    IF k = 0 THEN 0
    ELSE GenerationCommentLines(items, k - 1)
         + (IF HasSuggestions(items[k]) THEN CommentLinesIn(items[k].suggestions) ELSE 0)

\* the lines of an array document that hold //. JSON.stringify(_, null, 2)
\* puts every string value on a line of its own, a line break inside a value
\* being written \n, so these are the comments of suggestions (no file name,
\* id, timestamp or language holds //).
ArrayCommentLines(file) ==
    CommentLinesIn(file.items) + GenerationCommentLines(file.items, Len(file.items))

\* the stripper on the text of komments.json: the // pass (the style of
\* .json) matches once on each line that holds //, from there to the end of
\* the line. Inside a string value the match takes the closing quote along,
\* so the text left is not JSON any more; a note after the last character
\* of a document is cut off and the document itself is left.
StripHistory(file) ==
    LET count == CASE "value" \in DOMAIN file -> 1 + ArrayCommentLines(file.value)
                   [] "slashes" \in DOMAIN file -> file.slashes
                   [] file.kind = "array" -> ArrayCommentLines(file)
                   [] OTHER -> 0
    IN  [content |-> IF count = 0 THEN file
                     ELSE IF "value" \in DOMAIN file /\ ArrayCommentLines(file.value) = 0
                          THEN file.value
                          ELSE Unparseable,
         count |-> count]

\* the file of the current round of the for..of loop, its resolved path,
\* whether it is there, and what the stripper returns for it
CurrentPath == removeFilePaths[removeIndex + 1]
CurrentName == BaseName(resolvedPath(CurrentPath))
CurrentState ==
    CASE CurrentName = "komments.json" ->
           IF kommentsJson.kind = "absent" THEN "missing" ELSE "ok"
      [] CurrentName = ".env.local" -> IF dotEnv = "" THEN "missing" ELSE "ok"
      [] OTHER -> tree[CurrentName].state
Stripped(name) ==
    CASE name = "komments.json" -> StripHistory(kommentsJson)
      [] name = ".env.local" -> StripFile(EnvContent(dotEnv), ExtName(name))
      [] OTHER -> StripFile(tree[name].content, ExtName(name))

\* handleRemoveComments: validateApiKey() finds the key in the environment
RemoveKeyValid ==
    /\ rmpc = "validate"
    /\ apiKey # ""
    /\ rmpc' = "start"
    /\ UNCHANGED <<removeFilePaths, removeInteractive, confirmAnswer, tree, treeBefore,
                   removeIndex, details, totalCommentsRemoved, returned>>
    /\ UNCHANGED mainVars

\* handleRemoveComments: validateApiKey() is false and setupApiKey() writes
\* .env.local, .env and .gitignore before removeComments([], interactive)
RemoveSetupApiKey ==
    /\ rmpc = "validate"
    /\ apiKey = ""
    /\ apiKey' = "key"
    /\ dotEnv' = "key"
    /\ rmpc' = "start"
    /\ UNCHANGED <<removeFilePaths, removeInteractive, confirmAnswer, tree, treeBefore,
                   removeIndex, details, totalCommentsRemoved, returned>>
    /\ UNCHANGED <<gitStatus, options, modifiedFiles, exitCode, mpc>>

\* `if (!filePaths || filePaths.length === 0) filePaths = scanCodebase()` and,
\* when there is still no file, the early return
RemoveNoFiles ==
    /\ rmpc = "start"
    /\ Len(removeFilePaths) = 0
    /\ Len(scanCodebase(tree, kommentsJson, dotEnv)) = 0
    /\ \E t \in Clock : returned' = EmptyOperation(t)
    /\ rmpc' = "done"
    /\ UNCHANGED <<removeFilePaths, removeInteractive, confirmAnswer, tree, treeBefore,
                   removeIndex, details, totalCommentsRemoved>>

\* there are files: on to the prompt (interactive) or to the loop
RemoveBegin ==
    /\ rmpc = "start"
    /\ LET paths == IF Len(removeFilePaths) = 0
                    THEN scanCodebase(tree, kommentsJson, dotEnv)
                    ELSE removeFilePaths
       IN  /\ Len(paths) > 0
           /\ removeFilePaths' = paths
    /\ rmpc' = IF removeInteractive THEN "confirm" ELSE "loop"
    /\ UNCHANGED <<removeInteractive, confirmAnswer, tree, treeBefore, removeIndex, details,
                   totalCommentsRemoved, returned>>

\* the confirmation prompt returns; a refusal returns the empty record
Confirm ==
    /\ rmpc = "confirm"
    /\ \E confirm \in BOOLEAN :
          /\ confirmAnswer' = IF confirm THEN "yes" ELSE "no"
          /\ IF Cancelled(confirm)
             THEN /\ \E t \in Clock : returned' = EmptyOperation(t)
                  /\ rmpc' = "done"
             ELSE /\ rmpc' = "loop"
                  /\ UNCHANGED returned
    /\ UNCHANGED <<removeFilePaths, removeInteractive, tree, treeBefore, removeIndex, details,
                   totalCommentsRemoved>>

\* `if (!fs.existsSync(resolvedPath)) continue`
FileMissing ==
    /\ rmpc = "loop"
    /\ removeIndex < Len(removeFilePaths)
    /\ CurrentState = "missing"
    /\ removeIndex' = removeIndex + 1
    /\ UNCHANGED <<removeFilePaths, removeInteractive, confirmAnswer, tree, treeBefore,
                   details, totalCommentsRemoved, returned, rmpc>>
    /\ UNCHANGED histVars

\* comments were removed: the file is written, details and the total grow
FileStripped ==
    /\ rmpc = "loop"
    /\ removeIndex < Len(removeFilePaths)
    /\ CurrentState = "ok"
    /\ ShouldWrite(Stripped(CurrentName).count)
    /\ CASE CurrentName = "komments.json" ->
              /\ kommentsJson' = Stripped(CurrentName).content
              /\ UNCHANGED tree
         [] CurrentName = ".env.local" ->
              \* nothing of the text is cut: what is written is what was read
              /\ Stripped(CurrentName).content = EnvContent(dotEnv)
              /\ UNCHANGED <<tree, kommentsJson>>
         [] OTHER ->
              /\ tree' = [tree EXCEPT ![CurrentName].content = Stripped(CurrentName).content]
              /\ UNCHANGED kommentsJson
    /\ details' = Append(details, [file |-> CurrentPath,
                                   commentsRemoved |-> Stripped(CurrentName).count])
    /\ totalCommentsRemoved' = totalCommentsRemoved + Stripped(CurrentName).count
    /\ removeIndex' = removeIndex + 1
    /\ UNCHANGED <<removeFilePaths, removeInteractive, confirmAnswer, treeBefore, returned,
                   rmpc>>
    /\ UNCHANGED <<before, lastRun, imported>>

\* fs.writeFileSync throws: the catch block logs, details and total stay
FileWriteThrows ==
    /\ rmpc = "loop"
    /\ removeIndex < Len(removeFilePaths)
    /\ CurrentState = "readonly"
    /\ ShouldWrite(Stripped(CurrentName).count)
    /\ removeIndex' = removeIndex + 1
    /\ UNCHANGED <<removeFilePaths, removeInteractive, confirmAnswer, tree, treeBefore,
                   details, totalCommentsRemoved, returned, rmpc>>
    /\ UNCHANGED histVars

\* no comment was found: the file is not written
FileClean ==
    /\ rmpc = "loop"
    /\ removeIndex < Len(removeFilePaths)
    /\ CurrentState # "missing"
    /\ ~ShouldWrite(Stripped(CurrentName).count)
    /\ removeIndex' = removeIndex + 1
    /\ UNCHANGED <<removeFilePaths, removeInteractive, confirmAnswer, tree, treeBefore,
                   details, totalCommentsRemoved, returned, rmpc>>
    /\ UNCHANGED histVars

\* after the loop: the record, saveCommentRemovalOperation(record), return.
\* `before` stays the document the run began with.
RemoveSave ==
    /\ rmpc = "loop"
    /\ removeIndex = Len(removeFilePaths)
    /\ \E t \in Clock :
         LET operation == [timestamp |-> ToISOString(t), filesProcessed |-> removeFilePaths,
                           commentsRemoved |-> totalCommentsRemoved, details |-> details]
         IN  /\ saveCommentRemovalOperation(operation)
             /\ returned' = operation
    /\ rmpc' = "done"
    /\ UNCHANGED <<before, imported, removeFilePaths, removeInteractive, confirmAnswer, tree,
                   treeBefore, removeIndex, details, totalCommentsRemoved>>

\* the remove-comments command (handleRemoveComments, which passes []) or a
\* call of the exported removeComments with a list of files; the key is in
\* the environment or not, and when it is, setupApiKey may have written it
\* to the working directory in an earlier run
RemInit ==
    /\ removeFilePaths \in RemovePathLists
    /\ rmpc \in { "validate", "start" }
    /\ rmpc = "validate" => removeFilePaths = <<>>
    /\ apiKey \in { "", "key" }
    /\ dotEnv \in { "", apiKey }
    /\ gitStatus = <<>>
    /\ options = <<>>
    /\ modifiedFiles = <<>>
    /\ exitCode = "none"
    /\ mpc = "idle"
    /\ removeInteractive \in BOOLEAN
    /\ confirmAnswer = "none"
    /\ tree \in Trees
    /\ treeBefore = tree
    /\ removeIndex = 0
    /\ details = <<>>
    /\ totalCommentsRemoved = 0
    /\ returned = <<>>
    /\ kommentsJson \in RemoveHistories
    /\ before = kommentsJson
    /\ lastRun = [op |-> "none", n |-> 0, now |-> 0, suggestions |-> <<>>, operation |-> <<>>]
    /\ imported = [file |-> "", interactive |-> FALSE, n |-> 0, count |-> 0, status |-> "none",
                   list |-> <<>>]

InitRemove == RemInit /\ ExtIdle /\ AnaIdle /\ AppIdle /\ StripIdle

NextRemove ==
    \/ RemoveKeyValid /\ UNCHANGED <<histVars, extVars, anaVars, appVars, stripVars>>
    \/ RemoveSetupApiKey /\ UNCHANGED <<histVars, extVars, anaVars, appVars, stripVars>>
    \/ RemoveNoFiles /\ UNCHANGED <<histVars, extVars, anaVars, appVars, stripVars, mainVars>>
    \/ RemoveBegin /\ UNCHANGED <<histVars, extVars, anaVars, appVars, stripVars, mainVars>>
    \/ Confirm /\ UNCHANGED <<histVars, extVars, anaVars, appVars, stripVars, mainVars>>
    \/ FileMissing /\ UNCHANGED <<extVars, anaVars, appVars, stripVars, mainVars>>
    \/ FileStripped /\ UNCHANGED <<extVars, anaVars, appVars, stripVars, mainVars>>
    \/ FileWriteThrows /\ UNCHANGED <<extVars, anaVars, appVars, stripVars, mainVars>>
    \/ FileClean /\ UNCHANGED <<extVars, anaVars, appVars, stripVars, mainVars>>
    \/ RemoveSave /\ UNCHANGED <<extVars, anaVars, appVars, stripVars, mainVars>>

SpecRemove == InitRemove /\ [][NextRemove]_vars

(***************************************************************************)
(* The default action: main                                                *)
(***************************************************************************)

\* the paths of the working tree git may report
MainPaths == { "a.py", "c.GO", "locked.js", "gone.js", "notes.md" }

\* the working tree: locked.js exists but cannot be read or written, gone.js
\* does not exist, the others hold what readFileSync returns for them
MainDisk ==
    [ p \in MainPaths |->
        [state |-> CASE p = "gone.js" -> "missing"
                     [] p = "locked.js" -> "readonly"
                     [] OTHER -> "ok",
         content |-> ReadFileSync(p)] ]

\* codeExtensions of scanGitChanges
CodeExtensions ==
    { ".js", ".jsx", ".ts", ".tsx", ".py", ".java", ".c", ".cpp", ".cs", ".go", ".rb", ".php",
      ".swift", ".rs", ".html", ".css", ".scss" }

\* what git answers: not a repository, an error, or the changed files
\* (modified, not_added, created and renamed-to, in that order)
GitStates ==
    { [repo |-> "notrepo", changed |-> <<>>], [repo |-> "throws", changed |-> <<>>] }
    \cup
    { [repo |-> "ok", changed |-> l] :
        l \in { m \in UNION { [1..n -> MainPaths] : n \in 0..MaxFiles } :
                  \A a \in 1..Len(m), b \in 1..Len(m) : a # b => m[a] # m[b] } }

\* scanGitChanges(): [] outside a repository and on an error, otherwise the
\* changed files that have a code extension and exist
scanGitChanges(status, d) ==
    IF status.repo # "ok" THEN <<>>
    ELSE SelectSeq(status.changed,
                   LAMBDA file : /\ ToLowerCase(ExtName(file)) \in CodeExtensions
                                 /\ d[file].state # "missing")

\* komments.json when main starts
MainHistories == { Absent, NonArray, ArrayDoc(<<sA>>) }

ExitsEarly_Never(files) == FALSE
\* `if (modifiedFiles.length === 0)`: log and process.exit(0)
ExitsEarly(files) == Len(files) = 0

\* validateApiKey() finds the key in the environment
KeyValid ==
    /\ mpc = "validate"
    /\ apiKey # ""
    /\ mpc' = "scan"
    /\ UNCHANGED <<apiKey, dotEnv, gitStatus, options, modifiedFiles, exitCode>>
    /\ UNCHANGED <<histVars, extVars, anaVars, appVars, stripVars, remVars>>

\* validateApiKey() is false: setupApiKey() prompts for a non-empty key, writes
\* it to .env.local and .env, reloads the environment and returns true
SetupApiKey ==
    /\ mpc = "validate"
    /\ apiKey = ""
    /\ apiKey' = "key"
    /\ dotEnv' = "key"
    /\ mpc' = "scan"
    /\ UNCHANGED <<gitStatus, options, modifiedFiles, exitCode>>
    /\ UNCHANGED <<histVars, extVars, anaVars, appVars, stripVars, remVars>>

\* scanGitChanges() and the test of its result: exit with status 0, or the
\* call of analyzeCode(modifiedFiles, temperature)
ScanGitChanges ==
    /\ mpc = "scan"
    /\ modifiedFiles' = scanGitChanges(gitStatus, disk)
    /\ IF ExitsEarly(modifiedFiles')
       THEN /\ exitCode' = 0
            /\ mpc' = "exited"
            /\ UNCHANGED anaVars
       ELSE /\ filePaths' = modifiedFiles'
            /\ apc' = "file"
            /\ mpc' = "analyze"
            /\ UNCHANGED <<exitCode, fileIndex, codeSnippets, snippetIndex, allSuggestions,
                           requests, outstanding>>
    /\ UNCHANGED <<apiKey, dotEnv, gitStatus, options>>
    /\ UNCHANGED <<histVars, extVars, appVars, stripVars, remVars>>

\* analyzeCode has returned: saveSuggestions(suggestions), then the call of
\* applySuggestions(suggestions) when options.interactive, else the return
SaveAndContinue ==
    /\ mpc = "analyze"
    /\ apc = "done"
    /\ \E tLegacy \in Clock, now \in Clock :
         /\ (kommentsJson.kind # "nonarray" => tLegacy = now)
         /\ LET generations == LoadForSave(kommentsJson, tLegacy)
                codebaseInfo == collectCodebaseInfo(readdirSync(disk, kommentsJson, dotEnv))
            IN  kommentsJson' = ArrayDoc(Append(generations,
                                                NewGeneration(now, allSuggestions, codebaseInfo)))
         /\ before' = kommentsJson
         /\ lastRun' = [op |-> "saveSuggestions", n |-> Runs + 1, now |-> now,
                        suggestions |-> allSuggestions, operation |-> <<>>]
    /\ IF options.interactive
       THEN /\ toApply' = allSuggestions
            /\ interactiveMode' = TRUE
            /\ appc' = "loop"
            /\ mpc' = "apply"
       ELSE /\ mpc' = "returned"
            /\ UNCHANGED <<toApply, interactiveMode, appc>>
    /\ UNCHANGED <<imported, disk, applyIndex, applyLog>>
    /\ UNCHANGED <<apiKey, dotEnv, gitStatus, options, modifiedFiles, exitCode>>
    /\ UNCHANGED <<extVars, anaVars, stripVars, remVars>>

\* applySuggestions has returned: main returns
MainReturns ==
    /\ mpc = "apply"
    /\ appc = "done"
    /\ mpc' = "returned"
    /\ UNCHANGED <<apiKey, dotEnv, gitStatus, options, modifiedFiles, exitCode>>
    /\ UNCHANGED <<histVars, extVars, anaVars, appVars, stripVars, remVars>>

MainInit ==
    /\ apiKey \in { "", "key" }
    /\ dotEnv \in { "", apiKey }
    /\ gitStatus \in GitStates
    /\ options \in { [interactive |-> b] : b \in BOOLEAN }
    /\ modifiedFiles = <<>>
    /\ exitCode = "none"
    /\ mpc = "validate"
    /\ kommentsJson \in MainHistories
    /\ before = kommentsJson
    /\ lastRun = [op |-> "none", n |-> 0, now |-> 0, suggestions |-> <<>>, operation |-> <<>>]
    /\ imported = [file |-> "", interactive |-> FALSE, n |-> 0, count |-> 0, status |-> "none",
                   list |-> <<>>]
    /\ disk = MainDisk
    /\ toApply = <<>>
    /\ interactiveMode = FALSE
    /\ applyIndex = 0
    /\ applyLog = <<>>
    /\ appc = "idle"

InitMain == MainInit /\ ExtIdle /\ AnaIdle /\ StripIdle /\ RemIdle

NextMain ==
    \/ KeyValid
    \/ SetupApiKey
    \/ ScanGitChanges
    \/ ReadFile /\ UNCHANGED <<histVars, extVars, appVars, stripVars, remVars, mainVars>>
    \/ ReadFileThrows /\ UNCHANGED <<histVars, extVars, appVars, stripVars, remVars, mainVars>>
    \/ IssueRequest /\ UNCHANGED <<histVars, extVars, appVars, stripVars, remVars, mainVars>>
    \/ BackendReplies /\ UNCHANGED <<histVars, extVars, appVars, stripVars, remVars, mainVars>>
    \/ BackendThrows /\ UNCHANGED <<histVars, extVars, appVars, stripVars, remVars, mainVars>>
    \/ EndOfFile /\ UNCHANGED <<histVars, extVars, appVars, stripVars, remVars, mainVars>>
    \/ ReturnSuggestions /\ UNCHANGED <<histVars, extVars, appVars, stripVars, remVars, mainVars>>
    \/ SaveAndContinue
    \/ AnswerApply /\ UNCHANGED <<histVars, extVars, anaVars, stripVars, remVars, mainVars>>
    \/ AnswerEdit /\ UNCHANGED <<histVars, extVars, anaVars, stripVars, remVars, mainVars>>
    \/ AnswerSkip /\ UNCHANGED <<histVars, extVars, anaVars, stripVars, remVars, mainVars>>
    \/ AnswerExit /\ UNCHANGED <<histVars, extVars, anaVars, stripVars, remVars, mainVars>>
    \/ InteractiveDone /\ UNCHANGED <<histVars, extVars, anaVars, stripVars, remVars, mainVars>>
    \/ MainReturns

SpecMain == InitMain /\ [][NextMain]_vars

(***************************************************************************)
(* Claims about the history store (checked under SpecHistory)              *)
(***************************************************************************)

IsPrefix(s, t) == Len(s) <= Len(t) /\ SubSeq(t, 1, Len(s)) = s

\* a well-formed history document: an array whose elements are all generations
WellFormed(file) ==
    file.kind = "array" /\ \A k \in 1..Len(file.items) : HasSuggestions(file.items[k])

\* a legacy document: a non-empty bare array of suggestions
LegacyFlat(file) ==
    /\ file.kind = "array"
    /\ Len(file.items) > 0
    /\ \A k \in 1..Len(file.items) : ~HasSuggestions(file.items[k])

SavedLast == lastRun.op = "saveSuggestions"
RemovedLast == lastRun.op = "saveCommentRemovalOperation"

\* C1: after saveSuggestions on a legacy bare array of 3 suggestions the
\* document is exactly two generations: one with id "legacy" holding those 3
\* in order, then the new generation holding the current batch.
C1_LegacyWrapped ==
    (SavedLast /\ LegacyFlat(before) /\ Len(before.items) = 3) =>
        /\ kommentsJson.kind = "array"
        /\ Len(kommentsJson.items) = 2
        /\ HasSuggestions(kommentsJson.items[1])
        /\ kommentsJson.items[1].id = "legacy"
        /\ kommentsJson.items[1].suggestions = before.items
        /\ HasSuggestions(kommentsJson.items[2])
        /\ kommentsJson.items[2].suggestions = lastRun.suggestions

\* C2: after saveSuggestions on a file that fails to parse or parses to a
\* non-array, the document written holds exactly one generation, the new one
\* with the current batch.
C2_CorruptStartsFresh ==
    (SavedLast /\ before.kind \in {"unparseable", "nonarray"}) =>
        /\ kommentsJson.kind = "array"
        /\ Len(kommentsJson.items) = 1
        /\ kommentsJson.items[1].id = GenId(lastRun.now)
        /\ kommentsJson.items[1].suggestions = lastRun.suggestions

\* C3: after a comment-removal run on a well-formed document every
\* generation of the previous document is still there, at its place, with
\* its id and its suggestions (checked under SpecRemove, `before` being the
\* document the run began with).
C3_NeverDeleted ==
    (RemovedLast /\ WellFormed(before)) =>
        /\ kommentsJson.kind = "array"
        /\ Len(kommentsJson.items) >= Len(before.items)
        /\ \A k \in 1..Len(before.items) :
              /\ kommentsJson.items[k].id = before.items[k].id
              /\ kommentsJson.items[k].suggestions = before.items[k].suggestions

\* C4: a comment-removal run that finds a non-empty document attaches its
\* record to the last generation and keeps the number of generations; on a
\* missing or empty document it creates exactly one generation with no
\* suggestions that holds the record (checked on the whole run, under
\* SpecRemove, `before` being the document the run began with).
C4_RemovalAttachesToLast ==
    RemovedLast =>
        /\ (before.kind = "array" /\ Len(before.items) > 0) =>
              /\ kommentsJson.kind = "array"
              /\ Len(kommentsJson.items) = Len(before.items)
              /\ "commentRemoval" \in DOMAIN kommentsJson.items[Len(before.items)]
              /\ kommentsJson.items[Len(before.items)].commentRemoval = lastRun.operation
              /\ \A k \in 1..(Len(before.items) - 1) :
                    kommentsJson.items[k] = before.items[k]
        /\ (before.kind = "absent" \/ before = ArrayDoc(<<>>)) =>
              /\ kommentsJson.kind = "array"
              /\ Len(kommentsJson.items) = 1
              /\ kommentsJson.items[1].suggestions = <<>>
              /\ kommentsJson.items[1].commentRemoval = lastRun.operation

\* C5: no two generations of the persisted document have the same id.
C5_UniqueIds ==
    kommentsJson.kind = "array" =>
        \A j, k \in 1..Len(kommentsJson.items) :
            (/\ j # k
             /\ HasSuggestions(kommentsJson.items[j])
             /\ HasSuggestions(kommentsJson.items[k]))
            => kommentsJson.items[j].id # kommentsJson.items[k].id

\* C6: a bulk importSuggestions of komments.json, run on a document produced
\* by saveSuggestions runs, calls applyCommentToFile for exactly the
\* suggestions of the last element of the document, in their order.
C6_ImportsLatest ==
    (/\ imported.status = "applied"
     /\ imported.file = ""
     /\ imported.n = Runs
     /\ SavedLast
     /\ ~interactiveMode
     /\ appc = "done") =>
        LET latest == kommentsJson.items[Len(kommentsJson.items)].suggestions
        IN  /\ Len(applyLog) = Len(latest)
            /\ \A k \in 1..Len(latest) : applyLog[k].suggestion = latest[k]

(***************************************************************************)
(* Claims about extractCodeSnippets (checked under SpecExtract)            *)
(***************************************************************************)

Done == pc = "done"

\* the last line (1-based) of a unit
EndLine(u) == u.lineNumber + Len(u.code) - 1

\* the indices of the returned units that start at line j
UnitsAt(j) == { n \in 1..Len(result) : result[n].lineNumber = j }

\* exactly one returned unit starts at line j, and it spans lines j..e
ExactlyOneUnit(j, e) ==
    /\ Cardinality(UnitsAt(j)) = 1
    /\ \A n \in UnitsAt(j) : result[n].code = SubSeq(lines, j, e)

\* C7: for a brace-delimited extension, a trigger line whose own braces are
\* balanced yields exactly one unit, starting at that line, whose text is
\* that single line, whatever follows it.
C7_BalancedTriggerIsOneLineUnit ==
    (Done /\ ~UsesIndentation(extension)) =>
        \A j \in 1..Len(lines) :
            (PatternTest(extension, lines[j]) /\ BracketDelta(lines[j]) = 0)
            => ExactlyOneUnit(j, j)

\* line j is a trigger line followed by exactly k >= 1 lines that start with
\* a space or tab and then by a line that starts with neither
DefThenIndentedThenDedent(j, k) ==
    /\ PatternTest(extension, lines[j])
    /\ k >= 1
    /\ j + k + 1 <= Len(lines)
    /\ \A m \in (j + 1)..(j + k) : StartsIndented(lines[m])
    /\ ~StartsIndented(lines[j + k + 1])

\* line j lies inside a returned unit that started on an earlier line
InsideEarlierUnit(j) ==
    \E n \in 1..Len(result) : result[n].lineNumber < j /\ j <= EndLine(result[n])

\* C8 (as claimed): for .py and .rb, a trigger line followed by k >= 1
\* indented lines and then a dedented line yields exactly one unit, from the
\* trigger line through the k-th indented line.
C8_DedentClosesUnit ==
    (Done /\ UsesIndentation(extension)) =>
        \A j \in 1..Len(lines), k \in 1..Len(lines) :
            DefThenIndentedThenDedent(j, k) => ExactlyOneUnit(j, j + k)

\* C8 (amended): the same, for a trigger line that does not lie inside a unit
\* opened by an earlier trigger line.
C8_DedentClosesTopLevelUnit ==
    (Done /\ UsesIndentation(extension)) =>
        \A j \in 1..Len(lines), k \in 1..Len(lines) :
            (DefThenIndentedThenDedent(j, k) /\ ~InsideEarlierUnit(j))
            => ExactlyOneUnit(j, j + k)

\* C8 witness: a .py/.rb file whose first line is a trigger line followed by
\* two indented lines and a dedented one was scanned, and a unit starts there
C8_Witness ==
    /\ Done
    /\ UsesIndentation(extension)
    /\ Len(lines) = 4
    /\ DefThenIndentedThenDedent(1, 2)
    /\ ~InsideEarlierUnit(1)
    /\ UnitsAt(1) # {}

\* C9: every unit's lineNumber is the 1-based index of a line matching the
\* extension's pattern, and its code is the file's consecutive lines from
\* lineNumber through some closing line e >= lineNumber, unaltered.
C9_UnitIsContiguousSpan ==
    \A n \in 1..Len(snippets) :
        LET u == snippets[n]
        IN  /\ u.lineNumber \in 1..Len(lines)
            /\ PatternTest(extension, lines[u.lineNumber])
            /\ Len(u.code) >= 1
            /\ EndLine(u) <= Len(lines)
            /\ u.code = SubSeq(lines, u.lineNumber, EndLine(u))

\* C9 witness: a unit of at least two lines that starts after line 1 was
\* returned
C9_Witness ==
    /\ Done
    /\ \E n \in 1..Len(result) : result[n].lineNumber > 1 /\ Len(result[n].code) >= 2

\* C10: a unit opened by a trigger line and still open after the last line is
\* not returned; the units closed before it are returned (every trigger line
\* before the open unit lies in a returned unit).
C10_OpenUnitDropped ==
    (Done /\ inSnippet) =>
        /\ \A n \in 1..Len(result) : EndLine(result[n]) < snippetStart
        /\ \A j \in 1..(snippetStart - 1) :
              PatternTest(extension, lines[j]) =>
                 \E n \in 1..Len(result) :
                    result[n].lineNumber <= j /\ j <= EndLine(result[n])

\* C10 witness: the scan ended inside a unit after an earlier unit was closed
C10_Witness ==
    /\ Done
    /\ inSnippet
    /\ Len(result) >= 1
    /\ snippetStart > 1

\* C11: the units of one file have strictly increasing start lines and
\* pairwise disjoint line ranges (each unit ends before the next one starts),
\* so a trigger line inside a unit never starts a unit of its own.
C11_UnitsDisjointAscending ==
    /\ \A n \in 1..Len(snippets), m \in 1..Len(snippets) :
          n < m => EndLine(snippets[n]) < snippets[m].lineNumber
    /\ \A n \in 1..Len(snippets), j \in 1..Len(lines) :
          (snippets[n].lineNumber < j /\ j <= EndLine(snippets[n]))
          => \A m \in 1..Len(snippets) : snippets[m].lineNumber # j

\* C11 witness: two units were returned and the first one holds a trigger
\* line after its first line
C11_Witness ==
    /\ Done
    /\ Len(result) >= 2
    /\ \E j \in 1..Len(lines) :
          /\ result[1].lineNumber < j
          /\ j <= EndLine(result[1])
          /\ PatternTest(extension, lines[j])

(***************************************************************************)
(* Claims about analyzeCode                                                *)
(***************************************************************************)

AnalysisDone == apc = "done"

\* the positions in allSuggestions of the suggestions of one request
SuggestionsOf(r) ==
    { k \in 1..Len(allSuggestions) :
        allSuggestions[k].file = r.file /\ allSuggestions[k].line = r.line }

\* the text has a line that holds these tokens in a row
HasLineWith(text, toks) ==
    \E n \in 1..Len(text) : \E a \in 1..Len(text[n]) : HasAt(text[n], a, toks)

\* C12: every unit whose backend call returned has exactly one suggestion; its
\* comment is the trimmed reply when that has at least 5 characters, and the
\* template of generateDefaultComment when it is empty or shorter.
C12_ReturnedCallYieldsOneSuggestion ==
    \A n \in 1..Len(requests) :
        requests[n].outcome = "returned" =>
            /\ Cardinality(SuggestionsOf(requests[n])) = 1
            /\ \A k \in SuggestionsOf(requests[n]) :
                  LET trimmed == Trim(requests[n].reply)
                  IN  allSuggestions[k].suggestedComment =
                         IF Length(trimmed) >= 5
                         THEN trimmed
                         ELSE generateDefaultComment(requests[n].prompt.code,
                                                     ExtName(requests[n].file))
C12_Witness ==
    /\ AnalysisDone
    /\ \E n \in 1..Len(requests), m \in 1..Len(requests) :
          /\ requests[n].outcome = "returned" /\ Length(Trim(requests[n].reply)) = 5
          /\ requests[m].outcome = "returned" /\ Length(Trim(requests[m].reply)) = 4

\* the fallback template for `def add(a, b):`
AddTemplate ==
    << <<"/**">>,
       <<" ", "*", " ", "add", " ", "handles", " ", "add", " ", "operation">>,
       <<" ", "*", " ", "@param", " ", "a", " ", "Parameter", " ", "description">>,
       <<" ", "*", " ", "@param", " ", "b", " ", "Parameter", " ", "description">>,
       <<" ", "*/">> >>

\* a suggestion for the unit of a.py whose comment has `@param a`, `@param b`
\* and no `@returns`
IsAddFallback(s) ==
    /\ s.file = "a.py" /\ s.line = 1
    /\ HasLineWith(s.suggestedComment, <<"@param", " ", "a">>)
    /\ HasLineWith(s.suggestedComment, <<"@param", " ", "b">>)
    /\ ~HasLineWith(s.suggestedComment, <<"@returns">>)

\* C13 as stated: when the backend call for the unit of a.py fails, the run
\* produces a suggestion for it whose comment is the fallback template with
\* `@param a`, `@param b` and no `@returns`.
C13_FailedCallYieldsTemplate ==
    (AnalysisDone /\ \E n \in 1..Len(requests) :
                        requests[n].file = "a.py" /\ requests[n].outcome = "threw")
    => \E k \in 1..Len(allSuggestions) : IsAddFallback(allSuggestions[k])

\* C13, amended: a.py has one unit, at line 1, made of its first two lines;
\* when the backend's reply for it is empty or shorter than 5 characters once
\* trimmed, the run produces exactly one suggestion for it, whose comment is
\* the fallback template with `@param a`, `@param b` and no `@returns`; when
\* the call fails, the run produces no suggestion for it.
C13_ShortReplyYieldsTemplate ==
    AnalysisDone =>
        \A n \in 1..Len(requests) :
            requests[n].file = "a.py" =>
                /\ requests[n].line = 1
                /\ requests[n].prompt.code = SubSeq(ReadFileSync("a.py"), 1, 2)
                /\ \A m \in 1..Len(requests) : requests[m].file = "a.py" => m = n
                /\ (requests[n].outcome = "returned" /\ Length(Trim(requests[n].reply)) < 5)
                   => /\ Cardinality(SuggestionsOf(requests[n])) = 1
                      /\ \A k \in SuggestionsOf(requests[n]) :
                            /\ allSuggestions[k].suggestedComment = AddTemplate
                            /\ IsAddFallback(allSuggestions[k])
                /\ requests[n].outcome = "threw" => SuggestionsOf(requests[n]) = {}
C13_Witness ==
    /\ AnalysisDone
    /\ \E n \in 1..Len(requests) :
          /\ requests[n].file = "a.py"
          /\ requests[n].outcome = "returned"
          /\ Trim(requests[n].reply) = EmptyText
          /\ \E k \in SuggestionsOf(requests[n]) : IsAddFallback(allSuggestions[k])

\* the units of filePaths[k], as extractCodeSnippets finds them
UnitsOfFile(k) ==
    IF Readable(filePaths[k])
    THEN extractCodeSnippets(ReadFileSync(filePaths[k]), filePaths[k])
    ELSE <<>>

\* the position of a path in filePaths
FileNo(path) == CHOOSE k \in 1..Len(filePaths) : filePaths[k] = path

\* C14: a unit whose backend call threw has no suggestion and no second
\* request (no unit is ever requested twice); when analyzeCode returns, every
\* unit of every readable file has been requested, and allSuggestions holds
\* one suggestion per call that returned, in discovery order (file order, then
\* ascending line).
C14_FailedUnitSkippedOthersProcessed ==
    /\ \A n \in 1..Len(requests) :
          requests[n].outcome = "threw" => SuggestionsOf(requests[n]) = {}
    /\ \A n \in 1..Len(requests), m \in 1..Len(requests) :
          (requests[n].file = requests[m].file /\ requests[n].line = requests[m].line)
          => n = m
    /\ AnalysisDone =>
          /\ \A k \in 1..Len(filePaths) : \A u \in 1..Len(UnitsOfFile(k)) :
                \E n \in 1..Len(requests) :
                    /\ requests[n].file = filePaths[k]
                    /\ requests[n].line = UnitsOfFile(k)[u].lineNumber
                    /\ requests[n].outcome # "pending"
          /\ Len(allSuggestions) =
                Cardinality({ n \in 1..Len(requests) : requests[n].outcome = "returned" })
          /\ \A a \in 1..Len(allSuggestions), b \in 1..Len(allSuggestions) :
                a < b =>
                   \/ FileNo(allSuggestions[a].file) < FileNo(allSuggestions[b].file)
                   \/ /\ allSuggestions[a].file = allSuggestions[b].file
                      /\ allSuggestions[a].line < allSuggestions[b].line
C14_Witness ==
    /\ AnalysisDone
    /\ \E n \in 1..Len(requests), m \in 1..Len(requests), q \in 1..Len(requests) :
          /\ n < m /\ m < q
          /\ requests[n].outcome = "threw"
          /\ requests[m].file = requests[n].file /\ requests[m].outcome = "returned"
          /\ requests[q].file # requests[n].file /\ requests[q].outcome = "returned"

\* C15: at most one backend request is outstanding; requests are issued in
\* file order and, within a file, in unit order; a request is issued only
\* after every earlier one has returned or thrown.
C15_OneRequestAtATime ==
    /\ outstanding <= 1
    /\ outstanding =
          Cardinality({ n \in 1..Len(requests) : requests[n].outcome = "pending" })
    /\ \A n \in 1..Len(requests), m \in 1..Len(requests) :
          n < m =>
             /\ requests[n].outcome # "pending"
             /\ \/ requests[n].fileNo < requests[m].fileNo
                \/ /\ requests[n].fileNo = requests[m].fileNo
                   /\ requests[n].unit < requests[m].unit
C15_Witness ==
    /\ outstanding = 1
    /\ Len(requests) >= 3
    /\ requests[1].fileNo # requests[Len(requests)].fileNo
    /\ requests[1].fileNo = requests[2].fileNo

(***************************************************************************)
(* Claims about applying suggestions                                       *)
(***************************************************************************)

ApplyDone == appc = "done"

Applied(k) == applyLog[k].outcome = "applied"

\* the file of the k-th suggestion before and after the loop dealt with it
FileBefore(k) == applyLog[k].diskBefore[applyLog[k].suggestion.file].content
FileAfter(k) == applyLog[k].diskAfter[applyLog[k].suggestion.file].content

\* C16: an applied suggestion with 1 <= lineNumber <= number of lines leaves
\* its file as the lines before lineNumber, the formatted comment, then the
\* lines from lineNumber on; the line that was at lineNumber follows the
\* comment, and no other file changes.
C16_CommentInsertedBeforeLine ==
    \A k \in 1..Len(applyLog) :
        LET l == applyLog[k].suggestion.line
            c == applyLog[k].formatted
        IN  (Applied(k) /\ 1 <= l /\ l <= Len(FileBefore(k))) =>
               /\ FileAfter(k) = SubSeq(FileBefore(k), 1, l - 1) \o c
                                 \o SubSeq(FileBefore(k), l, Len(FileBefore(k)))
               /\ FileAfter(k)[l + Len(c)] = FileBefore(k)[l]
               /\ \A p \in DiskPaths :
                     p # applyLog[k].suggestion.file
                     => applyLog[k].diskAfter[p] = applyLog[k].diskBefore[p]
C16_Witness ==
    \E k \in 1..Len(applyLog) :
        /\ Applied(k)
        /\ applyLog[k].suggestion.line > 1
        /\ Len(applyLog[k].formatted) > 1
        /\ Len(FileAfter(k)) = Len(FileBefore(k)) + Len(applyLog[k].formatted)

\* the number of lines inserted into file f by the first k rounds
RECURSIVE LinesInserted(_, _)
LinesInserted(k, f) ==
    IF k = 0 THEN 0
    ELSE LinesInserted(k - 1, f)
         + (IF Applied(k) /\ applyLog[k].suggestion.file = f
            THEN Len(applyLog[k].formatted) ELSE 0)

\* every earlier applied suggestion for the same file has a lower or equal line
AfterLowerLines(k) ==
    \A j \in 1..(k - 1) :
        (Applied(j) /\ applyLog[j].suggestion.file = applyLog[k].suggestion.file)
        => applyLog[j].suggestion.line <= applyLog[k].suggestion.line

\* C17: suggestions are dealt with in list order, each on the disk its
\* predecessor left; an applied one is inserted at its recorded line of the
\* file as modified so far, so that, after suggestions for lower lines of the
\* same file, the line it was generated for is below the end of its comment by
\* the number of lines inserted earlier.
C17_LaterCommentsLandAboveTarget ==
    \A k \in 1..Len(applyLog) :
        LET s == applyLog[k].suggestion
            c == applyLog[k].formatted
            n == LinesInserted(k - 1, s.file)
        IN  /\ s = toApply[k]
            /\ applyLog[k].diskBefore = IF k = 1 THEN InitialDisk
                                        ELSE applyLog[k - 1].diskAfter
            /\ Applied(k) =>
                  /\ SubSeq(FileAfter(k), s.line, s.line + Len(c) - 1) = c
                  /\ AfterLowerLines(k) =>
                        FileAfter(k)[s.line + Len(c) + n] = InitialDisk[s.file].content[s.line]
C17_Witness ==
    /\ Len(applyLog) >= 2
    /\ Applied(1) /\ Applied(2)
    /\ applyLog[1].suggestion.file = applyLog[2].suggestion.file
    /\ applyLog[1].suggestion.line < applyLog[2].suggestion.line
    /\ LinesInserted(1, applyLog[2].suggestion.file) > 1
    /\ FileAfter(2)[applyLog[2].suggestion.line + Len(applyLog[2].formatted)]
          # InitialDisk[applyLog[2].suggestion.file].content[applyLog[2].suggestion.line]

\* the suggestions of each file are listed in strictly descending line order
DescendingPerFile ==
    \A a \in 1..Len(toApply), b \in 1..Len(toApply) :
        (a < b /\ toApply[a].file = toApply[b].file) => toApply[a].line > toApply[b].line

\* in the file as it is now, the comment of round k sits right before the
\* line its suggestion was generated for
RightBeforeTarget(k) ==
    LET s == applyLog[k].suggestion
        c == applyLog[k].formatted
        now == disk[s.file].content
    IN  \E q \in 1..Len(now) :
            /\ now[q] = InitialDisk[s.file].content[s.line]
            /\ q > Len(c)
            /\ SubSeq(now, q - Len(c), q - 1) = c

\* C18: when the suggestions of a file are applied in strictly descending
\* line order, every applied comment ends up right before the original line
\* it targeted, whatever its number of lines.
C18_DescendingOrderKeepsTargets ==
    (ApplyDone /\ DescendingPerFile) =>
        \A k \in 1..Len(applyLog) : Applied(k) => RightBeforeTarget(k)
C18_Witness ==
    /\ ApplyDone /\ DescendingPerFile
    /\ Len(applyLog) >= 2
    /\ Applied(1) /\ Applied(2)
    /\ applyLog[1].suggestion.file = applyLog[2].suggestion.file
    /\ Len(applyLog[1].formatted) > 1 /\ Len(applyLog[2].formatted) > 1
    /\ RightBeforeTarget(1) /\ RightBeforeTarget(2)

\* C19: a suggestion whose file is missing or cannot be written fails without
\* changing any file; the error never leaves the loop; and the loop reaches
\* every later suggestion (unless the user answers 'exit').
C19_FailureIsContained ==
    /\ appc # "aborted"
    /\ \A k \in 1..Len(applyLog) :
          /\ applyLog[k].outcome = "failed" => applyLog[k].diskAfter = applyLog[k].diskBefore
          /\ (applyLog[k].action \in {"bulk", "apply", "edit"}
              /\ InitialDisk[applyLog[k].suggestion.file].state # "ok")
             => applyLog[k].outcome = "failed"
    /\ ApplyDone =>
          \/ Len(applyLog) = Len(toApply)
          \/ applyLog[Len(applyLog)].outcome = "exit"
C19_Witness ==
    /\ ApplyDone
    /\ Len(applyLog) >= 2
    /\ applyLog[1].outcome = "failed"
    /\ Applied(2)
    /\ disk # InitialDisk

\* the tokens of a text, with "\n" between its lines
RECURSIVE Flat(_)
Flat(text) ==
    IF Len(text) = 1 THEN text[1]
    ELSE text[1] \o <<"\n">> \o Flat(Tail(text))

\* the round applied a comment in block style
BlockStyled(k) ==
    /\ Applied(k)
    /\ ExtName(applyLog[k].suggestion.file) \in {".html", ".css"}

\* C20 as stated: in block style the newlines of the body are collapsed, so
\* the formatted comment has no newline.
C20_BlockBodyCollapsed ==
    \A k \in 1..Len(applyLog) : BlockStyled(k) => Len(applyLog[k].formatted) = 1

\* C20, amended: in block style the formatted comment is the prefix, a space,
\* the body as it is (newlines kept), a space and the suffix, so a body of n
\* lines yields a formatted comment of n lines.
C20_BlockBodyKept ==
    \A k \in 1..Len(applyLog) :
        BlockStyled(k) =>
            LET bracket == IF ExtName(applyLog[k].suggestion.file) = ".html"
                           THEN <<"<!--", "-->">> ELSE <<"/*", "*/">>
            IN  /\ Flat(applyLog[k].formatted)
                      = <<bracket[1], " ">> \o Flat(applyLog[k].comment) \o <<" ", bracket[2]>>
                /\ Len(applyLog[k].formatted) = Len(applyLog[k].comment)
C20_Witness ==
    \E k \in 1..Len(applyLog), j \in 1..Len(applyLog) :
        /\ BlockStyled(k) /\ Len(applyLog[k].comment) > 1
        /\ applyLog[k].suggestion.file = "p.css"
        /\ BlockStyled(j) /\ applyLog[j].suggestion.file = "h.html"

\* the round applied a one-line body to a file with a line comment style
OneLineInLineStyle(k) ==
    /\ Applied(k)
    /\ getCommentStyle(ExtName(applyLog[k].suggestion.file)).suffix = ""
    /\ Len(applyLog[k].comment) = 1

\* the body holds one of the JSDoc markers and the file is .js/.jsx/.ts/.tsx
MarkedInScript(k) ==
    /\ ExtName(applyLog[k].suggestion.file) \in {".js", ".jsx", ".ts", ".tsx"}
    /\ \E t \in 1..Len(applyLog[k].comment[1]) :
          applyLog[k].comment[1][t] \in
              {"@param", "@return", "@returns", "@description", "@example", "@typedef",
               "@type", "@function", "@class"}

\* C21 as stated: in a line comment style a body without newline gives a
\* formatted comment without newline, JSDoc markers in a script file included.
C21_OneLineBodyOneLineComment ==
    \A k \in 1..Len(applyLog) : OneLineInLineStyle(k) => Len(applyLog[k].formatted) = 1

\* C21, amended: in a line comment style a body without newline gives the
\* one-line comment `prefix body`, except for a body with a JSDoc marker in a
\* .js/.jsx/.ts/.tsx file: that one is inserted as it is when it starts with
\* `/**` and ends with `*/`, and otherwise as the three lines `/**`,
\* ` * body` (comment prefix of the body removed), ` */`.
C21_OneLineBodyUnlessMarked ==
    \A k \in 1..Len(applyLog) :
        OneLineInLineStyle(k) =>
            LET body == applyLog[k].comment[1]
                f == applyLog[k].formatted
                prefix == IF ExtName(applyLog[k].suggestion.file) = ".py" THEN "#" ELSE "//"
            IN  IF ~MarkedInScript(k)
                THEN f = << <<prefix, " ">> \o body >>
                ELSE IF body[1] = "/**" /\ body[Len(body)] = "*/"
                THEN f = << body >>
                ELSE /\ Len(f) = 3
                     /\ f[1] = <<"/**">>
                     /\ f[3] = <<" ", "*/">>
                     /\ SubSeq(f[2], 1, 3) = <<" ", "*", " ">>
                     /\ \E a \in 1..Len(body) :
                           SubSeq(f[2], 4, Len(f[2])) = SubSeq(body, a, Len(body))
C21_Witness ==
    \E k \in 1..Len(applyLog), j \in 1..Len(applyLog) :
        /\ OneLineInLineStyle(k) /\ MarkedInScript(k) /\ Len(applyLog[k].formatted) = 3
        /\ OneLineInLineStyle(j) /\ ~MarkedInScript(j)
        /\ applyLog[j].suggestion.file = "b.py"
        /\ applyLog[j].comment = TaggedBody

\* openBrackets minus closeBrackets over lines a..b of the file
RECURSIVE Balance(_, _)
Balance(a, b) ==
    IF a > b THEN 0
    ELSE CountPiece(lines[a], "{") - CountPiece(lines[a], "}") + Balance(a + 1, b)

\* the first line after line j at which the balance from line j on is <= 0,
\* or 0 when there is none
CloseLine(j) ==
    IF \E e \in (j + 1)..Len(lines) : Balance(j, e) <= 0
    THEN CHOOSE e \in (j + 1)..Len(lines) :
            /\ Balance(j, e) <= 0
            /\ \A d \in (j + 1)..(e - 1) : Balance(j, d) > 0
    ELSE 0

\* C28: for a brace-delimited extension, a unit whose trigger line has a
\* positive brace balance ends exactly at the first later line at which the
\* balance from the trigger line on is <= 0 (the first trigger line of a file
\* yields such a unit whenever that line exists), and a trigger line right
\* after the unit's last line opens the next unit.
C28_UnitEndsWhenBalanceReturns ==
    (Done /\ ~UsesIndentation(extension)) =>
        /\ \A n \in 1..Len(result) :
              Balance(result[n].lineNumber, result[n].lineNumber) > 0 =>
                 /\ EndLine(result[n]) = CloseLine(result[n].lineNumber)
                 /\ (/\ EndLine(result[n]) < Len(lines)
                     /\ PatternTest(extension, lines[EndLine(result[n]) + 1])
                     /\ CloseLine(EndLine(result[n]) + 1) # 0)
                    => UnitsAt(EndLine(result[n]) + 1) # {}
        /\ \A j \in 1..Len(lines) :
              (/\ PatternTest(extension, lines[j])
               /\ \A h \in 1..(j - 1) : ~PatternTest(extension, lines[h])
               /\ Balance(j, j) > 0
               /\ CloseLine(j) # 0)
              => ExactlyOneUnit(j, CloseLine(j))
C28_Witness ==
    /\ Done /\ ~UsesIndentation(extension)
    /\ Len(result) = 2
    /\ Balance(result[1].lineNumber, result[1].lineNumber) > 0
    /\ EndLine(result[1]) = CloseLine(result[1].lineNumber)
    /\ result[2].lineNumber = EndLine(result[1]) + 1

\* C29: for .py and .rb, no returned unit holds, after its first line, a line
\* that starts with neither a space nor a tab.
C29_ColumnZeroLineNeverInUnit ==
    (Done /\ UsesIndentation(extension)) =>
        \A n \in 1..Len(result) : \A m \in 2..Len(result[n].code) :
            StartsIndented(result[n].code[m])

\* C30: in the interactive session, 'exit' ends it at once, the files being
\* as the earlier rounds left them; 'skip' changes no file and the session
\* goes on with the next suggestion; 'edit' inserts the edited text, formatted,
\* at the recorded line, and not the suggested comment.
C30_ExitSkipEdit ==
    \A k \in 1..Len(applyLog) :
        LET e == applyLog[k]
            ext == ToLowerCase(ExtName(e.suggestion.file))
        IN  /\ e.action = "exit" =>
                  /\ k = Len(applyLog) /\ appc = "done"
                  /\ disk = e.diskBefore
                  /\ e.diskBefore = IF k = 1 THEN InitialDisk ELSE applyLog[k - 1].diskAfter
            /\ e.action = "skip" =>
                  /\ e.diskAfter = e.diskBefore
                  /\ (appc = "done" /\ k < Len(toApply)) =>
                        /\ Len(applyLog) > k
                        /\ applyLog[k + 1].suggestion = toApply[k + 1]
                        /\ applyLog[k + 1].diskBefore = e.diskBefore
            /\ (e.action = "edit" /\ e.outcome = "applied") =>
                  \E edited \in EditedComments :
                      LET c == FormatComment(ext, edited)
                      IN  /\ c # FormatComment(ext, e.suggestion.suggestedComment)
                          /\ Len(FileAfter(k)) = Len(FileBefore(k)) + Len(c)
                          /\ e.suggestion.line + Len(c) - 1 <= Len(FileAfter(k))
                          /\ SubSeq(FileAfter(k), e.suggestion.line,
                                    e.suggestion.line + Len(c) - 1) = c
C30_Witness ==
    /\ interactiveMode /\ appc = "done"
    /\ Len(toApply) = 2 /\ Len(applyLog) = 2
    /\ applyLog[1].action = "edit" /\ applyLog[1].outcome = "applied"
    /\ applyLog[2].action = "exit"
    /\ disk # InitialDisk

(***************************************************************************)
(* Claims about removeCommentsFromContent (checked under SpecStrip)        *)
(***************************************************************************)

\* the number of lines of a content: content.split('\n').length
NumLines(content) == 1 + Cardinality({ p \in 1..Len(content) : content[p] = "\n" })

Occurs(content, pat) == IndexOf(content, pat, 1) # 0

\* the delimiters of the comment style of a suggestion's file
StyleDelimiters(s) ==
    LET style == getCommentStyle(ExtName(s.file))
    IN  IF style.suffix = "" THEN { Chars(style.prefix) }
        ELSE { Chars(style.prefix), Chars(style.suffix) }

\* the body of the suggestion holds a delimiter of its file's style
BodyHasDelimiter(s) ==
    \E d \in StyleDelimiters(s) : Occurs(Join(s.suggestedComment), d)

\* a comment was inserted into a file and the file was stripped
RoundTrip ==
    /\ stripCase.origin = "inserted"
    /\ ~BodyHasDelimiter(stripCase.suggestion)
    /\ Len(stripRuns) >= 1

\* the file of the suggestion before the comment was inserted
Original == Join(InitialDisk[stripCase.suggestion.file].content)

\* C22 as stated: stripping the file into which a comment was just inserted
\* removes the comment and gives back the original number of lines.
C22_RoundTripRestoresLineCount ==
    RoundTrip =>
        /\ stripRuns[1].count >= 1
        /\ NumLines(stripRuns[1].content) = NumLines(Original)

\* the positions of the line feeds of a content, and its lines without them
LineFeeds(content) == { p \in 1..Len(content) : content[p] = "\n" }
RECURSIVE SplitLines(_)
SplitLines(content) ==
    IF LineFeeds(content) = {} THEN << content >>
    ELSE LET p == CHOOSE q \in LineFeeds(content) : \A r \in LineFeeds(content) : q <= r
         IN  << SubSeq(content, 1, p - 1) >> \o SplitLines(SubSeq(content, p + 1, Len(content)))

\* the lines of a content that hold something else than white space
SolidLines(content) ==
    SelectSeq(SplitLines(content), LAMBDA l : \E p \in 1..Len(l) : l[p] \notin Whitespace)

\* C22 as the code has it: the comment is removed and the lines of the original
\* come back in order, but the lines the comment stood on stay behind, blank:
\* the stripped file is one or two lines longer than the original.
C22_RoundTripLeavesBlankLines ==
    RoundTrip =>
        /\ stripRuns[1].count >= 1
        /\ SolidLines(stripRuns[1].content) = SplitLines(Original)
        /\ NumLines(stripRuns[1].content) \in { NumLines(Original) + 1, NumLines(Original) + 2 }
C22_Witness ==
    /\ RoundTrip
    /\ stripCase.suggestion.file = "a.js"
    /\ stripCase.suggestion.line = 2
    /\ stripCase.suggestion.suggestedComment = PlainBody
    /\ NumLines(stripRuns[1].content) = NumLines(Original) + 1

\* C23: a second call on the content the first call returned removes nothing
\* and returns that content.
C23_StripIsIdempotent ==
    Len(stripRuns) = 2 => stripRuns[2] = [content |-> stripRuns[1].content, count |-> 0]

\* C24: for a .js content no `//` and no `/* ... */` span is left; the line
\* comments go first (in `/*//*/` the line comment takes the `*/` with it and
\* `/*` stays); the file with one `/* old */` and one `// trailing` loses
\* both and the count is 2.
C24_ScriptLineThenBlock ==
    (stripCase.ext = ".js" /\ Len(stripRuns) >= 1) =>
        LET out == stripRuns[1].content
            open == IndexOf(out, <<"/", "*">>, 1)
        IN  /\ ~Occurs(out, <<"/", "/">>)
            /\ open # 0 => IndexOf(out, <<"*", "/">>, open + 2) = 0
            /\ stripRuns[1].count = 0 => out = CollapseBlankLines(stripCase.content)
            /\ stripCase.content = <<"/", "*", "/", "/", "*", "/">>
               => stripRuns[1] = [content |-> <<"/", "*">>, count |-> 1]
            /\ stripCase.origin = "example"
               => stripRuns[1] = [content |-> <<"x", " ", "\n", "y", " ", "\n", "z">>,
                                  count |-> 2]
C24_Witness ==
    /\ stripCase.origin = "example"
    /\ Len(stripRuns) >= 1
    /\ stripRuns[1].count = 2

(***************************************************************************)
(* Claims about removeComments (checked under SpecRemove)                  *)
(***************************************************************************)

\* the files a run may process: the source files and komments.json
ProcessedNames == RemovePaths \cup { "komments.json" }

\* a file as it is and as it was when the run began
FileNow(name) == IF name = "komments.json" THEN kommentsJson ELSE tree[name]
FileWas(name) == IF name = "komments.json" THEN before ELSE treeBefore[name]

\* the number of comments the stripper finds in a file as it was before the run
CommentsBefore(name) ==
    IF name = "komments.json" THEN StripHistory(before).count
    ELSE StripFile(treeBefore[name].content, ExtName(name)).count

HasDetail(name) ==
    \E k \in 1..Len(details) : BaseName(resolvedPath(details[k].file)) = name

Listed(name) ==
    \E k \in 1..Len(removeFilePaths) : BaseName(resolvedPath(removeFilePaths[k])) = name

\* saveCommentRemovalOperation has not been reached
BeforeSave == lastRun.op = "none"

\* C25: a file of the run in which the stripper finds no comment is never
\* written (its content stays what it was) and gets no details entry.
C25_CleanFileNeverWritten ==
    rmpc # "idle" =>
        \A name \in ProcessedNames :
            (Listed(name) /\ CommentsBefore(name) = 0)
            => FileNow(name) = FileWas(name) /\ ~HasDetail(name)

\* The guard of the loop alone: the loop never writes a file in which the
\* stripper finds no comment, blank line runs included, and gives it no
\* details entry; it rewrites a file only when its count is positive, and
\* then to what the stripper returned.  komments.json, when the run
\* processes it, is left alone by the loop in the same way; what rewrites
\* it is the save of the record that ends the run.
LoopWritesOnlyCounted ==
    rmpc # "idle" =>
        /\ \A p \in RemovePaths :
              /\ CommentsBefore(p) = 0 => tree[p] = treeBefore[p] /\ ~HasDetail(p)
              /\ tree[p] # treeBefore[p] => CommentsBefore(p) > 0 /\ HasDetail(p)
              /\ (/\ rmpc = "done"
                  /\ confirmAnswer # "no"
                  /\ Listed(p)
                  /\ treeBefore[p].state = "ok"
                  /\ CommentsBefore(p) > 0)
                 => /\ tree[p].content = StripFile(treeBefore[p].content, ExtName(p)).content
                    /\ HasDetail(p)
        /\ CommentsBefore("komments.json") = 0 =>
              /\ ~HasDetail("komments.json")
              /\ BeforeSave => kommentsJson = before
        /\ (BeforeSave /\ kommentsJson # before) =>
              /\ CommentsBefore("komments.json") > 0
              /\ HasDetail("komments.json")
              /\ kommentsJson = StripHistory(before).content
        /\ ~HasDetail(".env.local")
        /\ \A k \in 1..Len(details) :
              details[k].commentsRemoved = CommentsBefore(BaseName(resolvedPath(details[k].file)))

\* the loop of the run did not rewrite komments.json: it was not among the
\* files, or the stripper found nothing in it
HistoryUntouchedByLoop ==
    ~Listed("komments.json") \/ CommentsBefore("komments.json") = 0

\* The save at the end of a run whose loop left komments.json alone does
\* what C4 says: the two branches of saveCommentRemovalOperation.
SaveAttachesToWhatItReads ==
    HistoryUntouchedByLoop => C4_RemovalAttachesToLast

\* C26: when the confirmation of an interactive run is declined, no source
\* file is modified, nothing is written to komments.json, and the returned
\* record has no files, no removed comments and no details.
C26_DeclinedRunChangesNothing ==
    (removeInteractive /\ confirmAnswer = "no") =>
        /\ rmpc = "done"
        /\ tree = treeBefore
        /\ kommentsJson = before
        /\ lastRun.op = "none"
        /\ returned # <<>>
        /\ returned.filesProcessed = <<>>
        /\ returned.commentsRemoved = 0
        /\ returned.details = <<>>
C26_Witness ==
    /\ removeInteractive
    /\ confirmAnswer = "no"
    /\ rmpc = "done"
    /\ Listed("a.js")
    /\ CommentsBefore("a.js") = 2
    /\ returned.filesProcessed = <<>>

(***************************************************************************)
(* Claims about the default action (checked under SpecMain)                *)
(***************************************************************************)

\* scanGitChanges has returned
Scanned == mpc \in { "analyze", "apply", "returned", "exited" }

\* the last element of komments.json is the generation holding what
\* analyzeCode returned
HistoryWritten ==
    /\ lastRun.op = "saveSuggestions"
    /\ kommentsJson.kind = "array"
    /\ Len(kommentsJson.items) > 0
    /\ kommentsJson.items[Len(kommentsJson.items)].suggestions = allSuggestions

\* C27: when the scan yields no file (not a repository, an error, or no
\* changed code file) the process exits with status 0 and no backend request
\* was issued, komments.json was not written and no source file was touched;
\* when files were found, komments.json is written before any suggestion is
\* presented or applied.
C27_EmptyScanExitsBeforeAnyWork ==
    /\ (Scanned /\ gitStatus.repo # "ok") => modifiedFiles = <<>>
    /\ (Scanned /\ modifiedFiles = <<>>) =>
          /\ mpc = "exited"
          /\ exitCode = 0
          /\ requests = <<>>
          /\ kommentsJson = before
          /\ lastRun.op = "none"
          /\ disk = MainDisk
          /\ applyLog = <<>>
    /\ mpc = "exited" => modifiedFiles = <<>>
    /\ (mpc = "apply" \/ applyLog # <<>> \/ (mpc # "idle" /\ disk # MainDisk)) =>
          /\ modifiedFiles # <<>>
          /\ HistoryWritten
    /\ (mpc = "returned") => HistoryWritten
C27_Witness ==
    /\ mpc = "exited"
    /\ exitCode = 0
    /\ gitStatus.repo = "ok"
    /\ Len(gitStatus.changed) = 2
    /\ requests = <<>>
    /\ kommentsJson = before

====
